---- MODULE Spec2Model ----
(***************************************************************************)
(* Verification model of github-analytics (Tattsum/github-analytics).      *)
(*                                                                         *)
(* Three state machines share this module:                                 *)
(*   SpecGateway - infrastructure.GitHubClient: the mutex, the reset       *)
(*                 deadline, the rate.Limiter and the callers of Query and *)
(*                 GetRateLimitInfo, over a discrete clock.                *)
(*   SpecFetch   - infrastructure.GitHubDataFetcher: FetchAllUserActivity  *)
(*                 with its four category fetches and nested pagination.   *)
(*   SpecRun     - cmd/github-analytics: main, fetchOrganizationMembers,   *)
(*                 setupAndProcessUsers, processUser and collectResults.   *)
(*                                                                         *)
(* Time is in milliseconds.  Local computation is instantaneous: the clock *)
(* advances only when no caller has a local step to take (all are blocked  *)
(* on a timer that is not due, on the network, or on the mutex).           *)
(***************************************************************************)
EXTENDS Integers, Sequences, FiniteSets, TLC

(***************************************************************************)
(* Program constants                                                       *)
(***************************************************************************)
\* time.Hour, in milliseconds
HourMs == 3600000
\* const requestsPerHour = 4500
requestsPerHour == 4500
\* rate.NewLimiter(rate.Every(time.Hour/requestsPerHour), 1): burst
Burst == 1
\* "GraphQL APIのrate limitは5000リクエスト/時"
ProviderCeiling == 5000
\* rate.Every(time.Hour/requestsPerHour): the interval between two tokens
Interval == HourMs \div requestsPerHour

(***************************************************************************)
(* Bounds of the gateway model                                             *)
(***************************************************************************)
\* concurrent callers of one GitHubClient
NumCallers == 2
\* contexts the callers may pass
NumCtx == 2
\* clock granularity and horizon (milliseconds)
TickMs == 400
MaxTime == 1600
\* invocations started in one behaviour
MaxCalls == 3
\* reset times the server may report: one that passes within the horizon, one beyond it
NearResetTicks == 2
FarResetTicks == 5

Callers == 1..NumCallers
Ctxs == 1..NumCtx
ResetChoices == {NearResetTicks * TickMs, FarResetTicks * TickMs}

Max(a, b) == IF a >= b THEN a ELSE b

VARIABLES
  \* ---- gateway (infrastructure.GitHubClient) ----
  now,                \* time.Now()
  lastRateLimitReset, \* GitHubClient.lastRateLimitReset, 0 is the zero time
  mu,                 \* GitHubClient.mu: 0 unlocked, else the holder
  limiter,            \* GitHubClient.limiter: instant at which the bucket is full again
  ctxDone,            \* ctxDone[x]: context x is cancelled or past its deadline
  inv,                \* inv[c]: the invocation caller c is in
  calls,              \* invocations started so far
  sent,               \* instants of the network calls made so far
  resetLog,           \* reset times stored by successful GetRateLimitInfo calls
  \* ---- fetch orchestrator (infrastructure.GitHubDataFetcher) ----
  srv,                \* the data the GraphQL server holds for the user
  ft,                 \* the locals of one FetchAllUserActivity call and of its callees
  fhist,              \* what has happened in that call so far
  \* ---- coordinator (cmd/github-analytics) ----
  run,                \* main and the functions it calls: flags, locals, program counter
  task,               \* task[i]: the goroutine started for users[i]
  results,            \* the channel results
  rhist,              \* the clients constructed and the GraphQL calls made in the run
  \* ---- per-repository commit fetch (infrastructure.GitHubRepository.FetchCommits) ----
  rc,                 \* the locals of one FetchCommits call and its goroutines
  \* ---- aggregation (application.StatisticsService) ----
  st,                 \* the input and the result of one CalculateStatistics call
  fd,                 \* the locals of one aggregateRepositoryActivities call
  \* ---- the -users flag (cmd/github-analytics getUsers) ----
  gu                  \* the flag, the list getUsers makes of it, the goroutines started

gwVars == <<now, lastRateLimitReset, mu, limiter, ctxDone, inv, calls, sent, resetLog>>
ftVars == <<srv, ft, fhist>>

runVars == <<run, task, results, rhist>>

rcVars == <<rc>>
stVars == <<st, fd>>
usVars == <<gu>>

vars == <<gwVars, ftVars, runVars, rcVars, stVars, usVars>>
nonGwVars == <<ftVars, runVars, rcVars, stVars, usVars>>
nonFtVars == <<gwVars, runVars, rcVars, stVars, usVars>>
nonRunVars == <<gwVars, ftVars, rcVars, stVars, usVars>>
nonRcVars == <<gwVars, ftVars, runVars, stVars, usVars>>
nonStVars == <<gwVars, ftVars, runVars, rcVars, usVars>>
nonUsVars == <<gwVars, ftVars, runVars, rcVars, stVars>>

\* A component that takes no part in a specification stays parked.
FetchParked == srv = 0 /\ ft = 0 /\ fhist = 0
RunParked == run = 0 /\ task = 0 /\ results = 0 /\ rhist = 0 /\ gu = 0
GatewayParked ==
  /\ now = 0 /\ lastRateLimitReset = 0 /\ mu = 0 /\ limiter = 0 /\ ctxDone = 0
  /\ inv = 0 /\ calls = 0 /\ sent = 0 /\ resetLog = 0
RepoCommitsParked == rc = 0
StatsParked == st = 0 /\ fd = 0

(***************************************************************************)
(* Errors are chains of messages, outermost wrapper first; <<>> is nil.    *)
(***************************************************************************)
Wrap(msg, err) == <<msg>> \o err
CtxErr == <<"ctx.Err">>
TransportErr == <<"transport error">>

\* The fields of an invocation are the locals of Query and WaitForRateLimit (pc, ctx,
\* seenReset, timer, reported), what the invocation has done so far (token, attempts,
\* sendTime, netErr) and the value it returned (result).
IdleInv ==
  [pc |-> "idle", op |-> "none", ctx |-> 1, seenReset |-> 0, timer |-> 0,
   token |-> FALSE, attempts |-> 0, netErr |-> <<>>, result |-> <<>>,
   sendTime |-> 0, startEpoch |-> 0, reported |-> 0]

\* The invocation has returned: its locals are gone, what is left is the outcome of
\* its network call, if it made one, and the returned value.
Returned(i, neterr, res) ==
  [IdleInv EXCEPT !.pc = "done", !.attempts = i.attempts,
                  !.netErr = neterr, !.result = res]

GatewayFresh ==
  /\ now = 0
  /\ lastRateLimitReset = 0
  /\ mu = 0
  /\ limiter = 0
  /\ ctxDone = [x \in Ctxs |-> FALSE]
  /\ inv = [c \in Callers |-> IdleInv]
  /\ calls = 0
  /\ sent = <<>>
  /\ resetLog = <<>>

InitGateway == GatewayFresh /\ FetchParked /\ RunParked /\ RepoCommitsParked /\ StatsParked

\* A caller that is in no invocation (it has made none, or its last one has returned)
\* invokes Query, directly or through GetRateLimitInfo, with context x.
Start(c, x, kind) ==
  /\ inv[c].pc \in {"idle", "done"}
  /\ calls < MaxCalls
  /\ calls' = calls + 1
  /\ inv' = [inv EXCEPT ![c] = [IdleInv EXCEPT !.pc = "lock", !.op = kind, !.ctx = x,
                                               !.startEpoch = Len(resetLog)]]
  /\ UNCHANGED <<nonGwVars, now, lastRateLimitReset, mu, limiter, ctxDone, sent, resetLog>>

\* WaitForRateLimit: c.mu.Lock()
Lock(c) ==
  /\ inv[c].pc = "lock"
  /\ mu = 0
  /\ mu' = c
  /\ inv' = [inv EXCEPT ![c].pc = "check"]
  /\ UNCHANGED <<nonGwVars, now, lastRateLimitReset, limiter, ctxDone, calls, sent, resetLog>>

\* (mutation of MustWaitForReset: the comparison with the deadline is the wrong way round)
MustWaitForResetInverted == lastRateLimitReset # 0 /\ now > lastRateLimitReset

\* WaitForRateLimit: the test of lastRateLimitReset
MustWaitForReset == lastRateLimitReset # 0 /\ now < lastRateLimitReset

CheckReset(c) ==
  /\ inv[c].pc = "check"
  /\ inv' = [inv EXCEPT ![c].pc = IF MustWaitForReset THEN "waitReset" ELSE "limiter",
                        ![c].seenReset = lastRateLimitReset,
                        ![c].timer = lastRateLimitReset]
  /\ UNCHANGED <<nonGwVars, now, lastRateLimitReset, mu, limiter, ctxDone, calls, sent, resetLog>>

\* WaitForRateLimit returns err with the deferred c.mu.Unlock(); Query wraps and returns it.
WaitFailed(c, err) ==
  /\ mu' = 0
  /\ inv' = [inv EXCEPT ![c] = Returned(inv[c], <<>>, Wrap("rate limit wait failed", err))]

\* select: case <-ctx.Done()
ResetCancelled(c) ==
  /\ inv[c].pc = "waitReset"
  /\ ctxDone[inv[c].ctx]
  /\ WaitFailed(c, Wrap("context cancelled", CtxErr))
  /\ UNCHANGED <<nonGwVars, now, lastRateLimitReset, limiter, ctxDone, calls, sent, resetLog>>

\* select: case <-time.After(waitTime)
ResetElapsed(c) ==
  /\ inv[c].pc = "waitReset"
  /\ now >= inv[c].timer
  /\ inv' = [inv EXCEPT ![c].pc = "limiter"]
  /\ UNCHANGED <<nonGwVars, now, lastRateLimitReset, mu, limiter, ctxDone, calls, sent, resetLog>>

\* (mutation of ReserveSlot: the token is handed out without regard to the last one)
ReserveSlotAtOnce == now

\* rate.Limiter.Wait: the slot the next token is reserved for
ReserveSlot == Max(now, limiter)

\* WaitForRateLimit returns nil with the deferred c.mu.Unlock()
WaitDone(c) ==
  /\ mu' = 0
  /\ inv' = [inv EXCEPT ![c].pc = "send", ![c].token = TRUE]

\* c.limiter.Wait(ctx): fails at once on a done context, else reserves a token
LimiterWait(c) ==
  /\ inv[c].pc = "limiter"
  /\ IF ctxDone[inv[c].ctx]
       THEN /\ WaitFailed(c, Wrap("rate limiter wait failed", CtxErr))
            /\ UNCHANGED limiter
       ELSE /\ limiter' = ReserveSlot + Interval
            /\ IF ReserveSlot <= now
                 THEN WaitDone(c)
                 ELSE /\ inv' = [inv EXCEPT ![c].pc = "waitToken", ![c].timer = ReserveSlot]
                      /\ UNCHANGED mu
  /\ UNCHANGED <<nonGwVars, now, lastRateLimitReset, ctxDone, calls, sent, resetLog>>

\* c.limiter.Wait(ctx): the context is done before the token's slot; the reservation is cancelled
TokenCancelled(c) ==
  /\ inv[c].pc = "waitToken"
  /\ ctxDone[inv[c].ctx]
  /\ limiter' = limiter - Interval
  /\ WaitFailed(c, Wrap("rate limiter wait failed", CtxErr))
  /\ UNCHANGED <<nonGwVars, now, lastRateLimitReset, ctxDone, calls, sent, resetLog>>

\* c.limiter.Wait(ctx): the token's slot has come
TokenGranted(c) ==
  /\ inv[c].pc = "waitToken"
  /\ now >= inv[c].timer
  /\ WaitDone(c)
  /\ UNCHANGED <<nonGwVars, now, lastRateLimitReset, limiter, ctxDone, calls, sent, resetLog>>

\* (mutation of QueryResult: the error of the network call is dropped)
QueryResultSwallowed(err) == <<>>

\* Query: the value returned for the outcome err of the network call
QueryResult(err) == IF err # <<>> THEN Wrap("graphql query failed", err) ELSE <<>>

\* (mutation of Send: the network call is made whatever the state of the context)
SendRegardless(c) ==
  /\ inv[c].pc = "send"
  /\ inv' = [inv EXCEPT ![c].pc = "inflight", ![c].attempts = @ + 1, ![c].sendTime = now]
  /\ sent' = Append(sent, now)
  /\ UNCHANGED <<nonGwVars, now, lastRateLimitReset, mu, limiter, ctxDone, calls, resetLog>>

\* Query: err := c.client.Query(ctx, q, variables).  The transport refuses a done context
\* before anything is written to the network.
Send(c) ==
  /\ inv[c].pc = "send"
  /\ IF ctxDone[inv[c].ctx]
       THEN /\ inv' = [inv EXCEPT ![c] = Returned(inv[c], CtxErr, QueryResult(CtxErr))]
            /\ UNCHANGED sent
       ELSE /\ inv' = [inv EXCEPT ![c].pc = "inflight", ![c].attempts = @ + 1,
                                  ![c].sendTime = now]
            /\ sent' = Append(sent, now)
  /\ UNCHANGED <<nonGwVars, now, lastRateLimitReset, mu, limiter, ctxDone, calls, resetLog>>

\* The network call returns err (<<>> is success).  A successful rate-limit query reports
\* the reset time t, which GetRateLimitInfo still has to store.
Respond(c, err, t) ==
  /\ inv[c].pc = "inflight"
  /\ err = CtxErr => ctxDone[inv[c].ctx]
  /\ t # 0 <=> (err = <<>> /\ inv[c].op = "GetRateLimitInfo")
  /\ inv' = [inv EXCEPT ![c] = IF err = <<>> /\ inv[c].op = "GetRateLimitInfo"
                                   THEN [inv[c] EXCEPT !.pc = "store", !.reported = t]
                                   ELSE Returned(inv[c], err, QueryResult(err))]
  /\ UNCHANGED <<nonGwVars, now, lastRateLimitReset, mu, limiter, ctxDone, calls, sent, resetLog>>

\* GetRateLimitInfo: c.mu.Lock(); c.lastRateLimitReset = query.RateLimit.ResetAt; c.mu.Unlock()
StoreReset(c) ==
  /\ inv[c].pc = "store"
  /\ mu = 0
  /\ lastRateLimitReset' = inv[c].reported
  /\ resetLog' = Append(resetLog, inv[c].reported)
  /\ inv' = [inv EXCEPT ![c] = Returned(inv[c], <<>>, <<>>)]
  /\ UNCHANGED <<nonGwVars, now, mu, limiter, ctxDone, calls, sent>>

\* The context's cancel function is called, or its deadline expires.
Cancel(x) ==
  /\ ~ctxDone[x]
  /\ ctxDone' = [ctxDone EXCEPT ![x] = TRUE]
  /\ UNCHANGED <<nonGwVars, now, lastRateLimitReset, mu, limiter, inv, calls, sent, resetLog>>

\* A caller has a local step it takes without waiting for time to pass.
HasLocalStep(c) ==
  \/ inv[c].pc \in {"check", "limiter", "send"}
  \/ inv[c].pc \in {"lock", "store"} /\ mu = 0
  \/ inv[c].pc \in {"waitReset", "waitToken"}
       /\ (ctxDone[inv[c].ctx] \/ now >= inv[c].timer)

Tick ==
  /\ now + TickMs <= MaxTime
  /\ \A c \in Callers : ~HasLocalStep(c)
  /\ now' = now + TickMs
  /\ UNCHANGED <<nonGwVars, lastRateLimitReset, mu, limiter, ctxDone, inv, calls, sent, resetLog>>

NextGateway ==
  \/ \E c \in Callers, x \in Ctxs, kind \in {"Query", "GetRateLimitInfo"} : Start(c, x, kind)
  \/ \E c \in Callers : Lock(c)
  \/ \E c \in Callers : CheckReset(c)
  \/ \E c \in Callers : ResetCancelled(c)
  \/ \E c \in Callers : ResetElapsed(c)
  \/ \E c \in Callers : LimiterWait(c)
  \/ \E c \in Callers : TokenCancelled(c)
  \/ \E c \in Callers : TokenGranted(c)
  \/ \E c \in Callers : Send(c)
  \/ \E c \in Callers, err \in {<<>>, TransportErr, CtxErr}, t \in ResetChoices \cup {0} : Respond(c, err, t)
  \/ \E c \in Callers : StoreReset(c)
  \/ \E x \in Ctxs : Cancel(x)
  \/ Tick

SpecGateway == InitGateway /\ [][NextGateway]_vars

(***************************************************************************)
(* Properties of the gateway, checked under SpecGateway                    *)
(***************************************************************************)
Last(s) == s[Len(s)]

\* The invocation is inside WaitForRateLimit.
InWaitPhase(c) == inv[c].pc \in {"lock", "check", "waitReset", "limiter", "waitToken"}

\* C1: when the caller's context is cancelled while its Query is still inside the
\* rate-limit wait (blocked on the mutex, on the reset deadline or on a limiter token),
\* Query returns at once - no time passes with the call still waiting -, what it returns
\* is a cancellation error, and the call never reaches the network.
C1_CancelledWaitReturnsAtOnce ==
  [][\A c \in Callers :
       /\ (InWaitPhase(c) /\ ctxDone[inv[c].ctx]) =>
             /\ now' = now
             /\ inv'[c].pc = "done" => Last(inv'[c].result) = "ctx.Err"
       /\ (inv[c].pc # "inflight" /\ inv'[c].pc = "inflight") => ~ctxDone[inv[c].ctx]]_vars

\* C2: a network call is in flight only for an invocation to which the limiter has issued
\* a token, and it was sent no earlier than the reset deadline the invocation read when it
\* entered the wait.
C2_SendAfterTokenAndDeadline ==
  \A c \in Callers :
    inv[c].pc = "inflight" => inv[c].token /\ inv[c].sendTime >= inv[c].seenReset

C2_Witness ==
  \E c \in Callers :
    /\ inv[c].pc = "inflight"
    /\ inv[c].seenReset # 0
    /\ inv[c].sendTime = inv[c].seenReset
    /\ inv[c].token

\* The shared deadline is the reset time of the latest successful GetRateLimitInfo.
DeadlineIsLatestReport ==
  lastRateLimitReset = IF resetLog = <<>> THEN 0 ELSE Last(resetLog)

\* C3: the shared deadline is the reset time reported to the latest successful
\* GetRateLimitInfo, and a call in flight was sent no earlier than any reset time T that a
\* GetRateLimitInfo had succeeded with before the call's invocation started.
C3_LaterCallsWaitForReportedReset ==
  /\ DeadlineIsLatestReport
  /\ \A c \in Callers :
       inv[c].pc = "inflight" =>
         \A i \in 1..inv[c].startEpoch : inv[c].sendTime >= resetLog[i]

\* The network calls made in the closed window [a, b].
SentIn(a, b) == {k \in DOMAIN sent : a <= sent[k] /\ sent[k] <= b}

C6_OneAttemptErrorReturned ==
  \A c \in Callers :
    /\ inv[c].attempts <= 1
    /\ inv[c].pc = "done" =>
         /\ inv[c].netErr # <<>> => inv[c].result = <<"graphql query failed">> \o inv[c].netErr
         /\ inv[c].result = <<>> => inv[c].netErr = <<>> /\ inv[c].attempts = 1

C6_Witness ==
  \E c \in Callers :
    /\ inv[c].pc = "done"
    /\ inv[c].attempts = 1
    /\ inv[c].netErr = TransportErr
    /\ inv[c].result = <<"graphql query failed", "transport error">>

(***************************************************************************)
(* Fetch orchestrator: infrastructure.GitHubDataFetcher                    *)
(*                                                                         *)
(* One FetchAllUserActivity call.  Every step is the code between the      *)
(* return of one GitHubClient.Query call and the next; the outcome of the  *)
(* query (nil or an error, and for a continuation query whether the        *)
(* repository is still in the result) is the step's input.  The server     *)
(* hands out its data in pages; a cursor is the number of the page it ends. *)
(***************************************************************************)
\* repositories in the user's contributions collection
NumRepos == 2
\* pages a repository's contributions may span, pages a flat connection may span
MaxPages == 3
MaxFlatPages == 2
\* nodes on one page
PageNodes == 2

\* FetchAllUserActivity: the order of the four fetches in the goroutine
Categories == <<"commits", "prs", "issues", "reviews">>
NestedCategories == {"commits", "reviews"}
RepoOrder == [i \in 1..NumRepos |-> i]

\* domain.NewActivity: the activity made of one node
NewActivity(type, repo, node) == [type |-> type, repo |-> repo, occurredAt |-> node]

\* the nodes of page p of repository r in the contributions collection of category cat
ServerNodes(cat, r, p) == [k \in 1..PageNodes |-> <<cat, r, p, k>>]

\* The server's answer for repository r to "contributions(first: $first, after: $after)".
ServerPage(cat, r, after) ==
  IF after + 1 <= srv.pages[r]
    THEN [nodes |-> ServerNodes(cat, r, after + 1),
          hasNextPage |-> after + 1 < srv.pages[r], endCursor |-> after + 1]
    ELSE [nodes |-> <<>>, hasNextPage |-> FALSE, endCursor |-> after]

\* The server's answer to "pullRequests/issues(first: $first, after: $after)".
ServerFlatPage(cat, after) ==
  IF after + 1 <= srv.flat
    THEN [nodes |-> ServerNodes(cat, 0, after + 1),
          hasNextPage |-> after + 1 < srv.flat, endCursor |-> after + 1]
    ELSE [nodes |-> <<>>, hasNextPage |-> FALSE, endCursor |-> after]

\* processCommitContributionsFromRepo / processReviewContributionsFromRepo and the node
\* loops of FetchPullRequests / FetchIssues: one Activity per node, in order
PageActivities(cat, r, nodes) == [k \in 1..Len(nodes) |-> NewActivity(cat, r, nodes[k])]

\* The error FetchX returns when its query fails with err
CategoryError(cat, err) ==
  Wrap(CASE cat = "commits" -> "failed to fetch commits"
         [] cat = "prs" -> "failed to fetch pull requests"
         [] cat = "issues" -> "failed to fetch issues"
         [] cat = "reviews" -> "failed to fetch reviews", err)

\* the outcomes of a query seen by the fetcher
QueryFailures == {QueryResult(TransportErr)}

\* Query on a done context: limiter.Wait fails, WaitForRateLimit and Query wrap its error
WaitCancelled == Wrap("rate limit wait failed", Wrap("rate limiter wait failed", CtxErr))

\* What a query of the fetch can return: on a done context the failed wait, else success
\* or a failed network call.
QueryOutcomes == IF ft.ctxDone THEN {WaitCancelled} ELSE QueryFailures \cup {<<>>}

\* How a query came out, for the log
OutcomeOf(err) ==
  IF err = <<>> THEN "ok" ELSE IF err[Len(err)] = "ctx.Err" THEN "cancelled" ELSE "failed"

FetchFresh ==
  /\ srv \in [pages : [1..NumRepos -> 1..MaxPages], flat : 1..MaxFlatPages]
  /\ ft = [pc |-> "userInfo", cat |-> 1, repoIdx |-> 0, after |-> 0,
           ctxDone |-> FALSE,  \* the ctx of the call is cancelled or past its deadline
           logged |-> <<>>,    \* what the fetcher has written to the operator's log
           activities |-> <<>>, repoActivities |-> <<>>,
           fetched |-> [c \in 1..4 |-> <<>>], errs |-> [c \in 1..4 |-> <<>>],
           resultChan |-> <<>>, ret |-> [returned |-> FALSE]]
  /\ fhist = [errLog |-> <<>>, contFailed |-> {}, contAbsent |-> {}, topOk |-> {},
              queries |-> 0, log |-> <<>>]

InitFetch == FetchFresh /\ GatewayParked /\ RunParked /\ RepoCommitsParked /\ StatsParked

\* The category fetch ft.cat has returned (list, err): the goroutine goes on to the next
\* fetch, or to the join after the fourth.
CategoryReturns(f, list, err) ==
  [f EXCEPT !.fetched[f.cat] = list, !.errs[f.cat] = err,
            !.activities = <<>>, !.repoActivities = <<>>, !.repoIdx = 0, !.after = 0,
            !.cat = IF f.cat < 4 THEN f.cat + 1 ELSE f.cat,
            !.pc = IF f.cat = 4 THEN "join"
                   ELSE IF Categories[f.cat + 1] \in NestedCategories THEN "top" ELSE "flat"]

\* processCommitsWithPagination / processReviewsWithPagination: the loop over repoContribs
\* from repository number i on, with the activities acc collected so far.  It runs until a
\* repository whose first page has a next page (its continuation query comes next) or to
\* the end of the list (the category fetch returns).
RECURSIVE ProcessRepos(_, _, _)
ProcessRepos(f, i, acc) ==
  IF i > NumRepos
    THEN CategoryReturns(f, acc, <<>>)
    ELSE LET r == RepoOrder[i]
             first == ServerPage(Categories[f.cat], r, 0)
             acc1 == acc \o PageActivities(Categories[f.cat], r, first.nodes)
         IN IF first.hasNextPage
              THEN [f EXCEPT !.pc = "cont", !.repoIdx = i, !.activities = acc1,
                             !.repoActivities = <<>>, !.after = first.endCursor]
              ELSE ProcessRepos(f, i + 1, acc1)

\* One query as the fetcher issued it: the variables it sent and how it came out.
Issued(cat, kind, repo, after, outcome) ==
  [cat |-> cat, kind |-> kind, repo |-> repo, after |-> after, outcome |-> outcome]

\* FetchAllUserActivity: f.repo.FetchUserInfo(ctx, username)
FetchUserInfo(err) ==
  /\ ft.pc = "userInfo"
  /\ ft' = IF err # <<>>
             THEN [ft EXCEPT !.pc = "returned",
                             !.ret = [returned |-> TRUE, isNil |-> TRUE,
                                      err |-> Wrap("failed to fetch user info",
                                                Wrap("failed to fetch user info", err))]]
             ELSE [ft EXCEPT !.pc = "top", !.cat = 1]
  /\ fhist' = [fhist EXCEPT !.queries = @ + 1,
                            !.log = Append(@, Issued(0, "userInfo", 0, 0,
                                                     OutcomeOf(err)))]
  /\ UNCHANGED <<nonFtVars, srv>>

\* FetchCommits / FetchReviews: the first query, then processXWithPagination up to the
\* first continuation query
TopQuery(err) ==
  /\ ft.pc = "top"
  /\ ft' = IF err # <<>>
             THEN CategoryReturns(ft, <<>>, CategoryError(Categories[ft.cat], err))
             ELSE ProcessRepos(ft, 1, <<>>)
  /\ fhist' = [fhist EXCEPT !.queries = @ + 1,
                            !.errLog = IF err # <<>>
                                         THEN Append(@, CategoryError(Categories[ft.cat], err))
                                         ELSE @,
                            !.topOk = IF err = <<>> THEN @ \cup {ft.cat} ELSE @,
                            !.log = Append(@, Issued(ft.cat, "top", 0, 0,
                                                     OutcomeOf(err)))]
  /\ UNCHANGED <<nonFtVars, srv>>

\* (mutation of ContinuationDone: the continuation pages are not appended)
ContinuationDropped(f, list) == ProcessRepos(f, f.repoIdx + 1, f.activities)

\* fetchRepositoryXContributionsPaginated returns (list, nil): the caller appends list
ContinuationDone(f, list) == ProcessRepos(f, f.repoIdx + 1, f.activities \o list)

\* (mutation of ContinuationFailed: the pages fetched before the failure are appended)
ContinuationKeepsPages(f, err) ==
  ProcessRepos(f, f.repoIdx + 1, f.activities \o f.repoActivities)

\* (mutation of ContinuationFailed: the error ends the category fetch)
ContinuationAborts(f, err) == CategoryReturns(f, <<>>, err)

\* fetchRepositoryXContributionsPaginated returns (nil, err): the caller goes on to the
\* next repository
ContinuationFailed(f, err) == ProcessRepos(f, f.repoIdx + 1, f.activities)

\* (mutation of ContinuationAbsent: a repository missing from the result is an error)
ContinuationAbsentFails(f) == CategoryReturns(f, <<>>, <<"repository not found">>)

\* fetchRepositoryXContributionsPage returns (nil, nil, false, nil) for a repository that is
\* not in the result: the loop of fetchRepositoryXContributionsPaginated breaks and returns
\* what it has collected
ContinuationAbsent(f) == ContinuationDone(f, f.repoActivities)

\* (mutation of NextAfter: the cursor passed on is one page too far)
NextAfterSkips(page) == page.endCursor + 1

\* The cursor of the next query, after a page that has a next page
NextAfter(page) == page.endCursor

\* fetchRepositoryXContributionsPage and the loop of fetchRepositoryXContributionsPaginated
\* around it: one continuation query for the repository ft.repoIdx.
\* found = FALSE: the query succeeds and the repository is not in its result.
ContinuationQuery(err, found) ==
  /\ ft.pc = "cont"
  /\ err # <<>> => found
  /\ LET r == RepoOrder[ft.repoIdx]
         page == ServerPage(Categories[ft.cat], r, ft.after)
         list == ft.repoActivities \o PageActivities(Categories[ft.cat], r, page.nodes)
     IN /\ ft' = IF err # <<>> THEN ContinuationFailed(ft, err)
                 ELSE IF ~found THEN ContinuationAbsent(ft)
                 ELSE IF ~page.hasNextPage THEN ContinuationDone(ft, list)
                 ELSE [ft EXCEPT !.repoActivities = list, !.after = NextAfter(page)]
        /\ fhist' = [fhist EXCEPT !.queries = @ + 1,
                                  !.contFailed = IF err # <<>> THEN @ \cup {<<ft.cat, r>>} ELSE @,
                                  !.contAbsent = IF err = <<>> /\ ~found
                                                   THEN @ \cup {<<ft.cat, r>>} ELSE @,
                                  !.log = Append(@, Issued(ft.cat, "cont", r, ft.after,
                                                           IF err = <<>> /\ ~found THEN "absent"
                                                           ELSE OutcomeOf(err)))]
  /\ UNCHANGED <<nonFtVars, srv>>

\* (mutation of FlatFailed: the pages fetched before the failure are returned)
FlatFailedKeepsPages(f, err) ==
  CategoryReturns(f, f.activities, CategoryError(Categories[f.cat], err))

\* FetchPullRequests / FetchIssues: the query of a page failed with err; return nil and
\* the wrapped error
FlatFailed(f, err) == CategoryReturns(f, <<>>, CategoryError(Categories[f.cat], err))

\* FetchPullRequests / FetchIssues: one turn of the for loop
FlatQuery(err) ==
  /\ ft.pc = "flat"
  /\ LET page == ServerFlatPage(Categories[ft.cat], ft.after)
         list == ft.activities \o PageActivities(Categories[ft.cat], 0, page.nodes)
     IN ft' = IF err # <<>>
                THEN FlatFailed(ft, err)
              ELSE IF ~page.hasNextPage THEN CategoryReturns(ft, list, <<>>)
              ELSE [ft EXCEPT !.activities = list, !.after = NextAfter(page)]
  /\ fhist' = [fhist EXCEPT !.queries = @ + 1,
                            !.errLog = IF err # <<>>
                                         THEN Append(@, CategoryError(Categories[ft.cat], err))
                                         ELSE @,
                            !.log = Append(@, Issued(ft.cat, "flat", 0, ft.after,
                                                     OutcomeOf(err)))]
  /\ UNCHANGED <<nonFtVars, srv>>

\* (mutation of FirstError: the error of the fourth fetch is not looked at)
FirstErrorOfThree(errs) ==
  IF errs[1] # <<>> THEN errs[1]
  ELSE IF errs[2] # <<>> THEN errs[2]
  ELSE errs[3]

\* FetchAllUserActivity, the goroutine: err := err1; if err == nil { err = err2 } ...
FirstError(errs) ==
  IF errs[1] # <<>> THEN errs[1]
  ELSE IF errs[2] # <<>> THEN errs[2]
  ELSE IF errs[3] # <<>> THEN errs[3]
  ELSE errs[4]

\* FetchAllUserActivity, the goroutine: resultChan <- result{...}
Join ==
  /\ ft.pc = "join"
  /\ ft' = [ft EXCEPT !.pc = "joined",
                      !.resultChan = Append(@, [commits |-> ft.fetched[1], prs |-> ft.fetched[2],
                                                issues |-> ft.fetched[3], reviews |-> ft.fetched[4],
                                                err |-> FirstError(ft.errs)])]
  /\ UNCHANGED <<nonFtVars, srv, fhist>>

\* FetchAllUserActivity: the value returned for the result r read from resultChan
ActivityResult(r) ==
  IF r.err # <<>>
    THEN [returned |-> TRUE, isNil |-> TRUE, err |-> r.err]
    ELSE [returned |-> TRUE, isNil |-> FALSE, err |-> <<>>,
          Commits |-> r.commits, PRs |-> r.prs, Issues |-> r.issues, Reviews |-> r.reviews]

\* FetchAllUserActivity: r := <-resultChan and the return
ReceiveResult ==
  /\ ft.pc = "joined"
  /\ ft.resultChan # <<>>
  /\ ft' = [ft EXCEPT !.pc = "returned", !.resultChan = Tail(@),
                      !.ret = ActivityResult(Head(ft.resultChan))]
  /\ UNCHANGED <<nonFtVars, srv, fhist>>

\* The ctx passed to FetchAllUserActivity is cancelled, or its deadline expires, while the
\* call is running.
CancelFetch ==
  /\ ft.pc \notin {"joined", "returned"}
  /\ ~ft.ctxDone
  /\ ft' = [ft EXCEPT !.ctxDone = TRUE]
  /\ UNCHANGED <<nonFtVars, srv, fhist>>

NextFetch ==
  \/ \E err \in QueryOutcomes : FetchUserInfo(err)
  \/ \E err \in QueryOutcomes : TopQuery(err)
  \/ \E err \in QueryOutcomes, found \in BOOLEAN : ContinuationQuery(err, found)
  \/ \E err \in QueryOutcomes : FlatQuery(err)
  \/ Join
  \/ ReceiveResult
  \/ CancelFetch

SpecFetch == InitFetch /\ [][NextFetch]_vars

(***************************************************************************)
(* Properties of the fetch orchestrator, checked under SpecFetch           *)
(***************************************************************************)
Range(seq) == {seq[i] : i \in DOMAIN seq}

\* The fetch of category number c has returned.
CategoryDone(c) == ft.cat > c \/ ft.pc \in {"join", "joined", "returned"}

\* The activities of all pages of repository r in category number c
RepoContributions(c, r) ==
  {NewActivity(Categories[c], r, ServerNodes(Categories[c], r, p)[k]) :
     p \in 1..srv.pages[r], k \in 1..PageNodes}

\* How often activity a occurs in the list
Occurrences(list, a) == Cardinality({i \in DOMAIN list : list[i] = a})

\* C8: when at least one of the four category fetches has returned an error,
\* FetchAllUserActivity returns nil data and the error that occurred first, whatever the
\* other fetches returned.
C8_AnyCategoryErrorFailsFetch ==
  (ft.pc = "returned" /\ fhist.errLog # <<>>) =>
    /\ ft.ret.isNil
    /\ ft.ret.err = fhist.errLog[1]

C8_Witness ==
  /\ ft.pc = "returned"
  /\ Len(fhist.errLog) = 1
  /\ ft.errs[3] # <<>>
  /\ ft.fetched[1] # <<>> /\ ft.fetched[2] # <<>> /\ ft.fetched[4] # <<>>
  /\ ft.ret.isNil
  /\ ft.ret.err = <<"failed to fetch issues", "graphql query failed", "transport error">>

\* The continuation queries of repository r in category number c all succeeded with r
\* in their result.
ContinuationIntact(c, r) == <<c, r>> \notin fhist.contFailed \cup fhist.contAbsent

\* C9: when a continuation query of some repository has failed in a nested category
\* (commits, reviews), the category fetch still returns without error, and its result
\* holds every contribution of every page of each repository whose own continuation
\* queries went through.
C9_FailedRepositoryDoesNotFailCategory ==
  \A c \in {1, 4} :
    (CategoryDone(c) /\ c \in fhist.topOk /\ \E r \in 1..NumRepos : <<c, r>> \in fhist.contFailed) =>
      /\ ft.errs[c] = <<>>
      /\ \A r \in 1..NumRepos :
           ContinuationIntact(c, r) => RepoContributions(c, r) \subseteq Range(ft.fetched[c])

C9_Witness ==
  /\ CategoryDone(1)
  /\ <<1, 1>> \in fhist.contFailed
  /\ srv.pages[2] >= 3
  /\ ContinuationIntact(1, 2)
  /\ ft.errs[1] = <<>>
  /\ RepoContributions(1, 2) \subseteq Range(ft.fetched[1])

PageOf(c, r, p) == PageActivities(Categories[c], r, ServerNodes(Categories[c], r, p))

\* C12: a continuation query that succeeds without the repository in its result is the
\* last query for that repository; the category fetch then returns without error, with
\* every page fetched for the repository before (the first page and the continuation
\* pages up to the cursor of that query) and with the first page of every repository
\* that follows it in the list.
C12_AbsentRepositoryStopsQuietly ==
  \A k \in DOMAIN fhist.log :
    LET q == fhist.log[k]
    IN (q.kind = "cont" /\ q.outcome = "absent") =>
         /\ \A j \in DOMAIN fhist.log :
              (j > k /\ fhist.log[j].cat = q.cat /\ fhist.log[j].kind = "cont")
                => fhist.log[j].repo # q.repo
         /\ CategoryDone(q.cat) =>
              /\ ft.errs[q.cat] = <<>>
              /\ \A p \in 1..q.after :
                   Range(PageOf(q.cat, q.repo, p)) \subseteq Range(ft.fetched[q.cat])
              /\ \A r \in 1..NumRepos :
                   r > q.repo => Range(PageOf(q.cat, r, 1)) \subseteq Range(ft.fetched[q.cat])

C12_Witness ==
  /\ CategoryDone(1)
  /\ \E k \in DOMAIN fhist.log :
       /\ fhist.log[k] = Issued(1, "cont", 1, 2, "absent")
       /\ Range(PageOf(1, 1, 2)) \subseteq Range(ft.fetched[1])
       /\ Range(PageOf(1, 2, 1)) \subseteq Range(ft.fetched[1])
  /\ ft.errs[1] = <<>>

\* C13: no error is dropped unseen: once a continuation query of a repository has failed
\* and the repository has been skipped, the fetcher has written a warning about that
\* repository to the operator's log, or the category fetch returns the error.
C13_SkippedRepositoryIsLogged ==
  \A c \in {1, 4}, r \in 1..NumRepos :
    <<c, r>> \in fhist.contFailed =>
      \/ \E w \in Range(ft.logged) : w.cat = c /\ w.repo = r
      \/ CategoryDone(c) /\ ft.errs[c] # <<>>

\* Some query of the fetch failed in the rate-limit wait because the context was done.
WaitWasCancelled == \E k \in DOMAIN fhist.log : fhist.log[k].outcome = "cancelled"

\* C14: when the rate-limit wait of any query of the fetch - a continuation page
\* included - has failed on cancellation, FetchAllUserActivity returns an error and no
\* data, never a successful result.
C14_CancellationReachesCaller ==
  (ft.pc = "returned" /\ WaitWasCancelled) =>
    /\ ft.ret.isNil
    /\ ft.ret.err # <<>>

\* The fetch of category number c has issued its first query.
Started(c) == \E k \in DOMAIN fhist.log : fhist.log[k].cat = c

\* C16: the four category fetches are launched together and joined: none of them is
\* still to be started when another has already completed, and the call returns, after
\* the user info was fetched, only when all four have run and completed.
C16_CategoryFetchesRunConcurrently ==
  /\ \A c1, c2 \in 1..4 : (Started(c1) /\ CategoryDone(c1)) => Started(c2)
  /\ (ft.pc = "returned" /\ fhist.log[1].outcome = "ok") =>
       \A c \in 1..4 : Started(c) /\ CategoryDone(c)

\* The queries of one kind, for one category and repository, in the order of the log
RECURSIVE SelectLog(_, _, _, _)
SelectLog(s, cat, kind, repo) ==
  IF s = <<>> THEN <<>>
  ELSE LET rest == SelectLog(Tail(s), cat, kind, repo)
       IN IF Head(s).cat = cat /\ Head(s).kind = kind /\ Head(s).repo = repo
            THEN <<Head(s)>> \o rest ELSE rest

\* The flat categories: pull requests and issues.
FlatCategories == {2, 3}

\* C11: FetchPullRequests and FetchIssues issue their queries with the cursors
\* nil, end of page 1, end of page 2, ... (query number k asks for the page after k - 1),
\* never one more after a page that reports no next page, and a fetch that has returned
\* without error has issued one query per page and returns the Activity of node k of
\* page p at position (p - 1) * PageNodes + k, and nothing else.
C11_FlatPaginationComplete ==
  \A c \in FlatCategories :
    LET qs == SelectLog(fhist.log, c, "flat", 0)
    IN /\ \A k \in DOMAIN qs : qs[k].after = k - 1
       /\ Len(qs) <= srv.flat
       /\ (CategoryDone(c) /\ qs # <<>> /\ ft.errs[c] = <<>>) =>
            /\ Len(qs) = srv.flat
            /\ Len(ft.fetched[c]) = srv.flat * PageNodes
            /\ \A p \in 1..srv.flat, k \in 1..PageNodes :
                 ft.fetched[c][(p - 1) * PageNodes + k]
                   = NewActivity(Categories[c], 0, ServerNodes(Categories[c], 0, p)[k])

C11_Witness ==
  /\ CategoryDone(3)
  /\ srv.flat >= 2
  /\ ft.errs[2] = <<>> /\ ft.errs[3] = <<>>
  /\ Len(SelectLog(fhist.log, 2, "flat", 0)) = srv.flat
  /\ Len(SelectLog(fhist.log, 3, "flat", 0)) = srv.flat
  /\ Len(ft.fetched[3]) = srv.flat * PageNodes

\* The errors a flat category fetch returns for a query that came out as outcome
FlatErrors(c, outcome) ==
  IF outcome = "cancelled" THEN {CategoryError(Categories[c], WaitCancelled)}
  ELSE {CategoryError(Categories[c], e) : e \in QueryFailures}

\* C38: when the query for page k of the pull-request or issue fetch fails, it is the
\* last query of that fetch, and the fetch has returned the error wrapped with the name of
\* the category and no activity, whatever pages it had fetched before.
C38_FlatFailureDiscardsPages ==
  \A c \in {2, 3} :
    LET q == SelectLog(fhist.log, c, "flat", 0)
    IN \A k \in DOMAIN q :
         q[k].outcome # "ok" =>
           /\ k = Len(q)
           /\ q[k].after = k - 1
           /\ CategoryDone(c)
           /\ ft.fetched[c] = <<>>
           /\ ft.errs[c] \in FlatErrors(c, q[k].outcome)
           /\ ft.errs[c][1] = (IF c = 2 THEN "failed to fetch pull requests"
                                        ELSE "failed to fetch issues")

C38_Witness ==
  /\ CategoryDone(2)
  /\ LET q == SelectLog(fhist.log, 2, "flat", 0)
     IN /\ Len(q) = 2
        /\ q[1].outcome = "ok"
        /\ q[2].outcome = "failed"
  /\ ft.fetched[2] = <<>>
  /\ ft.errs[2] = <<"failed to fetch pull requests", "graphql query failed", "transport error">>

\* The activities of page p of repository r in category number c
PageContributions(c, r, p) ==
  {NewActivity(Categories[c], r, ServerNodes(Categories[c], r, p)[k]) : k \in 1..PageNodes}

\* The activities of repository r in the list
FromRepository(list, r) == {list[i] : i \in {j \in DOMAIN list : list[j].repo = r}}

\* C37: when a continuation query of repository r has failed in a nested category, the
\* result of the category fetch holds, of r, the contributions of its first page, each
\* once, and nothing of its later pages, those fetched before the failure included.
C37_FailedRepositoryKeepsFirstPageOnly ==
  \A c \in {1, 4}, r \in 1..NumRepos :
    (CategoryDone(c) /\ <<c, r>> \in fhist.contFailed) =>
      /\ FromRepository(ft.fetched[c], r) = PageContributions(c, r, 1)
      /\ \A a \in PageContributions(c, r, 1) : Occurrences(ft.fetched[c], a) = 1
      /\ \A p \in 2..srv.pages[r] : PageContributions(c, r, p) \cap Range(ft.fetched[c]) = {}

C37_Witness ==
  /\ CategoryDone(1)
  /\ srv.pages[1] = 3
  /\ <<1, 1>> \in fhist.contFailed
  /\ \E i, j \in DOMAIN fhist.log :
       /\ fhist.log[i] = Issued(1, "cont", 1, 1, "ok")
       /\ fhist.log[j] = Issued(1, "cont", 1, 2, "failed")
  /\ FromRepository(ft.fetched[1], 1) = PageContributions(1, 1, 1)
  /\ PageContributions(1, 2, 1) \subseteq Range(ft.fetched[1])

(***************************************************************************)
(* Coordinator: cmd/github-analytics/main.go                               *)
(*                                                                         *)
(* One run of main.  A GitHubClient is known by the number it was          *)
(* constructed with; its limiter is its own (NewGitHubClient makes one per *)
(* client).  A step of a task is one GitHubClient.Query call of its        *)
(* FetchAllUserActivity, with the call's outcome as input.                 *)
(***************************************************************************)
\* usernames, and the longest user list of a run
NumNames == 2
MaxUsers == 2
\* logins on one page of membersWithRole
OrgPageNodes == 1

UserNames == 1..NumNames

RECURSIVE SeqsUpTo(_, _)
SeqsUpTo(S, n) ==
  IF n = 0 THEN {<<>>}
  ELSE LET shorter == SeqsUpTo(S, n - 1)
       IN shorter \cup {Append(q, x) : q \in {t \in shorter : Len(t) = n - 1}, x \in S}

\* FetchAllUserActivity: the queries of one user's fetch, in the order they are made; each
\* nested category has one repository with one continuation page
TaskSites == <<"userInfo", "commits", "commitsPage", "prs", "issues", "reviews", "reviewsPage">>
CategorySites == {"commits", "prs", "issues", "reviews"}

\* The categories whose activities are in a UserActivityData: none yet
NoData == {}

\* No UserStatistics
NoStats == <<>>

\* The goroutine of one user before processUser calls FetchAllUserActivity
NewTask == [pc |-> "fetch", site |-> 1, err |-> <<>>, data |-> NoData, stats |-> NoStats]

\* CalculateStatistics(data): the statistics, known by the categories they count
StatisticsOf(data) == [counted |-> data]

\* (mutation of Calculates: the statistics are calculated whatever the fetch returned)
CalculatesRegardless(ferr) == TRUE

\* processUser: CalculateStatistics is reached unless FetchAllUserActivity returned an
\* error
Calculates(ferr) == ferr = <<>>

\* FetchAllUserActivity returns ferr, with the data or with nil, and processUser goes
\* on to the result it will send
ProcessUserReturns(t, ferr) ==
  LET data == IF ferr = <<>> THEN t.data ELSE NoData
  IN [t EXCEPT !.pc = "send", !.err = ferr, !.data = data,
               !.stats = IF Calculates(ferr) THEN StatisticsOf(data) ELSE NoStats]

RunFresh ==
  /\ \E mode \in {"users", "org"}, list \in SeqsUpTo(UserNames, MaxUsers) :
       /\ mode = "users" => list # <<>>
       /\ run = [pc |-> "getUsers", mode |-> mode,
                 input |-> list,  \* -users after the split, or the members the server lists
                 users |-> <<>>, after |-> 0, orgClient |-> 0, client |-> 0,
                 received |-> 0, allStats |-> {}, formatted |-> {}, logged |-> {}]
  /\ task = <<>>
  /\ results = <<>>
  /\ rhist = [clients |-> 0, calls |-> {}]
  /\ gu = 0

InitRun == RunFresh /\ GatewayParked /\ FetchParked /\ RepoCommitsParked /\ StatsParked

\* GitHubClient.Query through client k at a call site: WaitForRateLimit takes a token
\* from the limiter of k, then the network call is made.
QueryVia(k, site) == [site |-> site, limiter |-> k]

\* getUsers, case *usersStr != ""
GetUsersFromFlag ==
  /\ run.pc = "getUsers"
  /\ run.mode = "users"
  /\ run' = [run EXCEPT !.pc = "setup", !.users = run.input]
  /\ UNCHANGED <<nonRunVars, task, results, rhist>>

\* getUsers, case *orgName != "": fetchOrganizationMembers up to its first query
OrgMembersStart ==
  /\ run.pc = "getUsers"
  /\ run.mode = "org"
  /\ run' = [run EXCEPT !.pc = "orgQuery", !.orgClient = rhist.clients + 1, !.after = 0]
  /\ rhist' = [rhist EXCEPT !.clients = @ + 1]
  /\ UNCHANGED <<nonRunVars, task, results>>

\* The server's answer to "membersWithRole(first: $first, after: $after)"
ServerMembersPage(after) ==
  LET from == after * OrgPageNodes + 1
      to == IF Len(run.input) < (after + 1) * OrgPageNodes
              THEN Len(run.input) ELSE (after + 1) * OrgPageNodes
  IN [nodes |-> SubSeq(run.input, from, to),
      hasNextPage |-> to < Len(run.input), endCursor |-> after + 1]

\* fetchOrganizationMembers: one turn of the for loop; then getUsers' checks
OrgMembersQuery(err) ==
  /\ run.pc = "orgQuery"
  /\ LET page == ServerMembersPage(run.after)
         members == run.users \o page.nodes
     IN run' = IF err # <<>> THEN [run EXCEPT !.pc = "fatal"]
               ELSE IF page.hasNextPage
                 THEN [run EXCEPT !.users = members, !.after = page.endCursor]
               ELSE IF members = <<>> THEN [run EXCEPT !.pc = "fatal"]
               ELSE [run EXCEPT !.users = members, !.pc = "setup"]
  /\ rhist' = [rhist EXCEPT !.calls = @ \cup {QueryVia(run.orgClient, "orgMembers")}]
  /\ UNCHANGED <<nonRunVars, task, results>>

\* setupAndProcessUsers up to collectResults: the client, the channel, the goroutines
SetupAndSpawn ==
  /\ run.pc = "setup"
  /\ run' = [run EXCEPT !.pc = "collect", !.client = rhist.clients + 1]
  /\ rhist' = [rhist EXCEPT !.clients = @ + 1]
  /\ task' = [i \in 1..Len(run.users) |-> NewTask]
  /\ results' = <<>>
  /\ UNCHANGED nonRunVars

\* FetchAllUserActivity with the query at site number n answered by err: the task's
\* state before its next query, or before it hands in its result
AfterQuery(t, err) ==
  LET site == TaskSites[t.site]
      ferr == IF t.err = <<>> /\ err # <<>> /\ site \in CategorySites
                THEN CategoryError(site, err) ELSE t.err
      next == IF site \in {"commits", "reviews"} /\ err # <<>> THEN t.site + 2 ELSE t.site + 1
      merged == IF err = <<>> /\ site \in CategorySites
                  THEN [t EXCEPT !.data = @ \cup {site}] ELSE t
  IN IF site = "userInfo" /\ err # <<>>
       THEN ProcessUserReturns(t, Wrap("failed to fetch user info",
                                       Wrap("failed to fetch user info", err)))
     ELSE IF next > Len(TaskSites) THEN ProcessUserReturns(merged, ferr)
     ELSE [merged EXCEPT !.site = next, !.err = ferr]

\* the goroutine of users[i]: processUser, at one query of FetchAllUserActivity
TaskQuery(i, err) ==
  /\ run.pc = "collect"
  /\ i \in DOMAIN task
  /\ task[i].pc = "fetch"
  /\ task' = [task EXCEPT ![i] = AfterQuery(task[i], err)]
  /\ rhist' = [rhist EXCEPT !.calls = @ \cup {QueryVia(run.client, TaskSites[task[i].site])}]
  /\ UNCHANGED <<nonRunVars, run, results>>

\* processUser: the userResult for the fetch that ended with ferr;
\* CalculateStatistics returns (stats, nil)
UserResult(user, ferr, stats) ==
  IF ferr # <<>>
    THEN [username |-> user, hasStats |-> FALSE, stats |-> NoStats,
          err |-> Wrap("failed to fetch user activity", ferr)]
    ELSE [username |-> user, hasStats |-> TRUE, stats |-> stats, err |-> <<>>]

\* (mutation of ChanCap: the channel holds one result less than there are users)
ChanCapOneShort(users) == Len(users) - 1

\* results := make(chan userResult, len(users)): the capacity of the channel
ChanCap(users) == Len(users)

\* the goroutine of users[i]: results <- userResult{...}, which waits while the channel
\* is full
TaskSend(i) ==
  /\ run.pc = "collect"
  /\ i \in DOMAIN task
  /\ task[i].pc = "send"
  /\ Len(results) < ChanCap(run.users)
  /\ results' = Append(results, UserResult(run.users[i], task[i].err, task[i].stats))
  /\ task' = [task EXCEPT ![i].pc = "finished"]
  /\ UNCHANGED <<nonRunVars, run, rhist>>

\* (mutation of CollectError: the first failed user ends the collection)
CollectErrorStops(r, rn) ==
  [rn EXCEPT !.received = Len(rn.users), !.logged = @ \cup {<<r.username, r.err>>}]

\* collectResults: the loop body for a result that carries an error
CollectError(r, rn) ==
  [rn EXCEPT !.received = @ + 1, !.logged = @ \cup {<<r.username, r.err>>}]

\* collectResults: one turn of the loop; formatErr is what formatter.FormatAll returns
Collect(formatErr) ==
  /\ run.pc = "collect"
  /\ run.received < Len(run.users)
  /\ results # <<>>
  /\ LET r == Head(results)
     IN /\ r.err # <<>> => ~formatErr
        /\ run' = IF r.err # <<>> THEN CollectError(r, run)
                  ELSE [run EXCEPT !.received = @ + 1,
                                   !.allStats = @ \cup {r.username},
                                   !.formatted = IF formatErr THEN @ ELSE @ \cup {r.username},
                                   !.logged = IF formatErr
                                                THEN @ \cup {<<r.username, <<"format error">>>>}
                                                ELSE @]
  /\ results' = Tail(results)
  /\ UNCHANGED <<nonRunVars, task, rhist>>

\* collectResults returns; generateCombinedReport; main prints the completion message
Finish ==
  /\ run.pc = "collect"
  /\ run.received = Len(run.users)
  /\ run' = [run EXCEPT !.pc = "done"]
  /\ UNCHANGED <<nonRunVars, task, results, rhist>>

NextRun ==
  \/ GetUsersFromFlag
  \/ OrgMembersStart
  \/ \E err \in QueryFailures \cup {<<>>} : OrgMembersQuery(err)
  \/ SetupAndSpawn
  \/ \E i \in 1..MaxUsers, err \in QueryFailures \cup {<<>>} : TaskQuery(i, err)
  \/ \E i \in 1..MaxUsers : TaskSend(i)
  \/ \E formatErr \in BOOLEAN : Collect(formatErr)
  \/ Finish

SpecRun == InitRun /\ [][NextRun]_vars

\* C35: the statistics of a user are calculated only when FetchAllUserActivity has
\* returned without error, with the activities of all four categories in its data, and
\* never for a user whose fetch returned an error; the result a goroutine sends carries
\* the statistics of its own user's data, in whatever order the goroutines finish.
C35_AggregationAfterCompleteFetch ==
  /\ \A i \in DOMAIN task :
       /\ task[i].stats # NoStats =>
            /\ task[i].pc \in {"send", "finished"}
            /\ task[i].err = <<>>
            /\ task[i].data = CategorySites
            /\ task[i].stats = StatisticsOf(task[i].data)
       /\ task[i].err # <<>> => task[i].stats = NoStats
  /\ \A k \in DOMAIN results :
       IF results[k].hasStats
         THEN \E i \in DOMAIN task :
                /\ task[i].pc = "finished"
                /\ run.users[i] = results[k].username
                /\ results[k].stats = task[i].stats
                /\ results[k].stats = StatisticsOf(CategorySites)
         ELSE results[k].stats = NoStats

C35_Witness ==
  /\ run.pc = "collect"
  /\ Len(results) = 2
  /\ ~results[1].hasStats
  /\ results[2].hasStats
  /\ results[1].username = run.users[2]
  /\ results[2].username = run.users[1]
  /\ run.users[1] # run.users[2]
  /\ task[1].stats = StatisticsOf(CategorySites)
  /\ task[2].stats = NoStats

(***************************************************************************)
(* The -users flag: getUsers makes the list of users of the string, and    *)
(* setupAndProcessUsers starts one goroutine for each entry of the list.   *)
(* A string is a sequence of characters.                                   *)
(***************************************************************************)
MaxFlagLen == 4

\* The characters of a flag value: two letters, the separator and a blank
FlagChars == {"a", "b", ",", " "}

\* strings.Split(s, ","): the pieces between the separators, field holding the piece
\* being read
RECURSIVE Split(_, _)
Split(s, field) ==
  IF s = <<>> THEN <<field>>
  ELSE IF Head(s) = "," THEN <<field>> \o Split(Tail(s), <<>>)
  ELSE Split(Tail(s), Append(field, Head(s)))

\* strings.TrimSpace: the blanks at both ends removed
RECURSIVE TrimSpace(_)
TrimSpace(s) ==
  IF s = <<>> THEN s
  ELSE IF Head(s) = " " THEN TrimSpace(Tail(s))
  ELSE IF s[Len(s)] = " " THEN TrimSpace(SubSeq(s, 1, Len(s) - 1))
  ELSE s

\* main has parsed the flags: -org is not given, -users holds a string
UsersFresh ==
  /\ \E usersStr \in SeqsUpTo(FlagChars, MaxFlagLen) :
       gu = [pc |-> "getUsers", usersStr |-> usersStr, users |-> <<>>, started |-> <<>>]
  /\ run = 0 /\ task = 0 /\ results = 0 /\ rhist = 0

InitUsers ==
  UsersFresh /\ GatewayParked /\ FetchParked /\ RepoCommitsParked /\ StatsParked

\* getUsers with *orgName = "": the string is split and every piece trimmed; without
\* a string log.Fatal ends the program
GetUsers ==
  /\ gu.pc = "getUsers"
  /\ IF gu.usersStr = <<>>
       THEN gu' = [gu EXCEPT !.pc = "fatal"]
       ELSE LET pieces == Split(gu.usersStr, <<>>)
            IN gu' = [gu EXCEPT !.pc = "setup",
                                !.users = [i \in DOMAIN pieces |-> TrimSpace(pieces[i])]]
  /\ UNCHANGED nonUsVars

\* setupAndProcessUsers: one turn of the loop over users, go func(user) for the next
\* entry
StartTask ==
  /\ gu.pc = "setup"
  /\ Len(gu.started) < Len(gu.users)
  /\ gu' = [gu EXCEPT !.started = Append(@, gu.users[Len(gu.started) + 1])]
  /\ UNCHANGED nonUsVars

\* setupAndProcessUsers: the loop is over and collectResults is called
CollectUsers ==
  /\ gu.pc = "setup"
  /\ Len(gu.started) = Len(gu.users)
  /\ gu' = [gu EXCEPT !.pc = "collect"]
  /\ UNCHANGED nonUsVars

NextUsers ==
  \/ GetUsers
  \/ StartTask
  \/ CollectUsers

SpecUsers == InitUsers /\ [][NextUsers]_vars

\* C34: the list of users made of the -users string is its comma-separated names with
\* the blanks around them removed and the empty entries left out, so no goroutine is
\* started for an empty username.
C34_EmptyEntriesExcluded ==
  gu.pc \in {"setup", "collect"} =>
    LET pieces == Split(gu.usersStr, <<>>)
        names == [i \in DOMAIN pieces |-> TrimSpace(pieces[i])]
    IN /\ gu.users = SelectSeq(names, LAMBDA name : name # <<>>)
       /\ \A i \in DOMAIN gu.started : gu.started[i] # <<>>

(***************************************************************************)
(* Properties of the coordinator, checked under SpecRun                    *)
(***************************************************************************)
\* C4: every GraphQL call of a run - user info, category fetches, continuation pages,
\* organisation-member listing - takes its token from one and the same limiter, that of
\* the one client the run constructs.
C4_OneLimiterPerRun ==
  /\ rhist.clients <= 1
  /\ \A a, b \in rhist.calls : a.limiter = b.limiter

\* the tasks whose fetch and aggregation succeeded
Succeeded == {i \in DOMAIN task : task[i].pc \in {"send", "finished"} /\ task[i].err = <<>>}
Failed == {i \in DOMAIN task : task[i].pc \in {"send", "finished"} /\ task[i].err # <<>>}

\* C7: when the run is over, every task has run to its end, the statistics collectResults
\* hands on (allStats) are those of exactly the users with a task whose fetch and
\* aggregation succeeded, and each failure is logged under the username of the task that
\* failed and under no other.
C7_FailuresStayWithTheirUser ==
  run.pc = "done" =>
    /\ \A i \in DOMAIN task : task[i].pc = "finished"
    /\ run.allStats = {run.users[i] : i \in Succeeded}
    /\ \A i \in Failed :
         <<run.users[i], Wrap("failed to fetch user activity", task[i].err)>> \in run.logged
    /\ \A e \in run.logged : e[2] # <<"format error">> => \E i \in Failed : e[1] = run.users[i]

C7_Witness ==
  /\ run.pc = "done"
  /\ Len(run.users) >= 2
  /\ Failed # {} /\ Succeeded # {}
  /\ \E i \in Failed : run.users[i] \notin run.allStats
  /\ run.allStats = {run.users[i] : i \in Succeeded}

(***************************************************************************)
(* Per-repository commit fetch: infrastructure.GitHubRepository            *)
(*                                                                         *)
(* One FetchCommits call: the repository list, one goroutine per           *)
(* repository behind the semaphore, and the loop that receives the         *)
(* results.                                                                *)
(***************************************************************************)
\* const maxConcurrentRepos = 5
maxConcurrentRepos == 5
\* repositories fetchUserRepositories may return
MaxUserRepos == 6

\* domain.ErrNotImplemented, what fetchRepositoryCommits returns
ErrNotImplemented == <<"not implemented">>

RepoCommitsFresh ==
  rc = [pc |-> "list", repos |-> 0, g |-> <<>>, semaphore |-> 0, results |-> <<>>,
        received |-> 0, warnings |-> 0, ret |-> [returned |-> FALSE]]

InitRepoCommits ==
  RepoCommitsFresh /\ GatewayParked /\ FetchParked /\ RunParked /\ StatsParked

\* FetchCommits: fetchUserRepositories returns n repositories or err; on success the
\* results channel and the semaphore are made and one goroutine per repository is started
ListRepositories(n, err) ==
  /\ rc.pc = "list"
  /\ rc' = IF err # <<>>
             THEN [rc EXCEPT !.pc = "returned",
                             !.ret = [returned |-> TRUE, isNil |-> TRUE,
                                      err |-> Wrap("failed to fetch repositories", err)]]
             ELSE [rc EXCEPT !.pc = "receive", !.repos = n,
                             !.g = [i \in 1..n |-> "acquire"]]
  /\ UNCHANGED nonRcVars

\* (mutation of SemaphoreHasRoom: the send on the semaphore never blocks)
SemaphoreUnbounded == TRUE

\* semaphore := make(chan struct{}, maxConcurrentRepos): a send goes through while the
\* buffer is not full
SemaphoreHasRoom == rc.semaphore < maxConcurrentRepos

\* the goroutine of repository i: semaphore <- struct{}{}
Acquire(i) ==
  /\ i \in DOMAIN rc.g
  /\ rc.g[i] = "acquire"
  /\ SemaphoreHasRoom
  /\ rc' = [rc EXCEPT !.g[i] = "fetch", !.semaphore = @ + 1]
  /\ UNCHANGED nonRcVars

\* the goroutine of repository i: fetchRepositoryCommits returns and the result is sent
\* (the channel holds len(repos) results, the send never blocks)
FetchRepositoryCommits(i) ==
  /\ i \in DOMAIN rc.g
  /\ rc.g[i] = "fetch"
  /\ rc' = [rc EXCEPT !.g[i] = "release",
                      !.results = Append(@, [activities |-> <<>>, err |-> ErrNotImplemented])]
  /\ UNCHANGED nonRcVars

\* the goroutine of repository i: the deferred <-semaphore
Release(i) ==
  /\ i \in DOMAIN rc.g
  /\ rc.g[i] = "release"
  /\ rc' = [rc EXCEPT !.g[i] = "exit", !.semaphore = @ - 1]
  /\ UNCHANGED nonRcVars

\* FetchCommits: one turn of the receive loop; a failed repository is printed as a warning
ReceiveRepoResult ==
  /\ rc.pc = "receive"
  /\ rc.received < rc.repos
  /\ rc.results # <<>>
  /\ rc' = [rc EXCEPT !.received = @ + 1, !.results = Tail(@),
                      !.warnings = IF Head(rc.results).err # <<>> THEN @ + 1 ELSE @]
  /\ UNCHANGED nonRcVars

\* FetchCommits: return activities, nil
ReturnCommits ==
  /\ rc.pc = "receive"
  /\ rc.received = rc.repos
  /\ rc' = [rc EXCEPT !.pc = "returned",
                      !.ret = [returned |-> TRUE, isNil |-> FALSE, err |-> <<>>]]
  /\ UNCHANGED nonRcVars

NextRepoCommits ==
  \/ \E n \in 0..MaxUserRepos, err \in QueryFailures \cup {<<>>} : ListRepositories(n, err)
  \/ \E i \in 1..MaxUserRepos : Acquire(i)
  \/ \E i \in 1..MaxUserRepos : FetchRepositoryCommits(i)
  \/ \E i \in 1..MaxUserRepos : Release(i)
  \/ ReceiveRepoResult
  \/ ReturnCommits

SpecRepoCommits == InitRepoCommits /\ [][NextRepoCommits]_vars

\* The goroutines that are inside fetchRepositoryCommits
InProgress == {i \in DOMAIN rc.g : rc.g[i] = "fetch"}

\* C17: at no moment are more than maxConcurrentRepos = 5 per-repository commit fetches
\* of one FetchCommits call in progress, however many repositories the user has.
C17_AtMostFiveRepositoryFetches ==
  rc.pc # "list" => Cardinality(InProgress) <= maxConcurrentRepos

C17_Witness ==
  /\ rc.repos > maxConcurrentRepos
  /\ Cardinality(InProgress) = maxConcurrentRepos
  /\ \E i \in DOMAIN rc.g : rc.g[i] = "acquire"

(***************************************************************************)
(* Aggregation: application.StatisticsService and domain.UserStatistics    *)
(*                                                                         *)
(* One CalculateStatistics call on one UserActivityData.  A time.Time is   *)
(* a number of days since 1 January of BaseYear; a float64 quotient is the *)
(* pair of its numerator and denominator.  The iteration order of a Go map *)
(* and the order sort.Slice leaves equal elements in are choices of the    *)
(* step.                                                                   *)
(***************************************************************************)
\* const oneYear = 365 * 24 * time.Hour, in days; the years from BaseYear on that the
\* dates of the model fall in have this many days
DaysPerYear == 365
\* const topRepoLimit = 3
topRepoLimit == 3
\* repositories, dates (one every DaysPerYear days) and activities of an input
NumStatRepos == 4
NumStatDates == 2
MaxActs == 4
\* the year of day 0
BaseYear == 2021
\* calls of CalculateStatistics on one input, and the activities of an input that is
\* aggregated more than once
MaxRuns == 2
MaxRerunActs == 3

\* domain.ActivityTypeCommit, ActivityTypePR, ActivityTypeIssue, ActivityTypeReview
ActivityTypes == <<"commit", "pull_request", "issue", "review">>

\* time.Time.Year()
Year(date) == BaseYear + (date \div DaysPerYear)

\* The inputs: activity number c of the input family.  A pull request carries line counts
\* and a merged flag, merged or not in every year and every repository; a commit carries
\* line counts (the callers of NewActivity pass them or 0); an issue and a review carry
\* none, as the fetcher builds them.
NumOptions == Len(ActivityTypes) * NumStatRepos * NumStatDates
ActivityOf(c) ==
  LET type == ActivityTypes[(c % Len(ActivityTypes)) + 1]
      repo == ((c \div Len(ActivityTypes)) % NumStatRepos) + 1
      date == (c \div (Len(ActivityTypes) * NumStatRepos)) * DaysPerYear
  IN [Type |-> type, Repository |-> repo, Date |-> date,
      Additions |-> IF type = "pull_request" THEN repo
                    ELSE IF type = "commit" THEN 2 ELSE 0,
      Deletions |-> IF type = "pull_request" THEN 1
                    ELSE IF type = "commit" THEN repo ELSE 0,
      IsMerged |-> (type = "pull_request" /\ (repo + (date \div DaysPerYear)) % 2 = 1)]

\* The lists of n activity numbers, in non-decreasing order
RECURSIVE CodeListsOfLen(_)
CodeListsOfLen(n) ==
  IF n = 0 THEN {<<>>}
  ELSE {Append(p[1], p[2]) :
          p \in {r \in CodeListsOfLen(n - 1) \X (0..(NumOptions - 1)) :
                   r[1] = <<>> \/ r[2] >= r[1][Len(r[1])]}}

\* The activities of one type, in list order
OfType(list, type) == SelectSeq(list, LAMBDA a : a.Type = type)

\* infrastructure.UserActivityData with the activities of the list in its four fields
UserActivityData(codes) ==
  LET list == [i \in 1..Len(codes) |-> ActivityOf(codes[i])]
  IN [Commits |-> OfType(list, "commit"), PRs |-> OfType(list, "pull_request"),
      Issues |-> OfType(list, "issue"), Reviews |-> OfType(list, "review")]

\* The float64 value 0 and the float64 quotient float64(a) / float64(b)
FloatZero == [num |-> 0, den |-> 1]
Quotient(a, b) == [num |-> a, den |-> b]

\* domain.NewUserStatistics
NewUserStatistics ==
  [TotalCommits |-> 0, TotalPRCreated |-> 0, TotalPRMerged |-> 0, TotalIssues |-> 0,
   TotalReviews |-> 0, TotalAdditions |-> 0, TotalDeletions |-> 0,
   FirstActivityYear |-> 0, PeakActivityYear |-> 0, PeakActivityCommits |-> 0,
   YearlyStats |-> <<>>, TopRepositories |-> <<>>, LongTermRepositories |-> <<>>,
   PRToReviewRatio |-> FloatZero, RoleTransition |-> <<>>]

\* Repository names are interchangeable: an input with k repositories names them 1..k
ReposInOrder(codes) ==
  LET used == {ActivityOf(codes[i]).Repository : i \in DOMAIN codes}
  IN used = 1..Cardinality(used)

\* The caller holds an input of up to n activities and will call CalculateStatistics
\* on it budget times
StatsFreshWith(n, budget) ==
  /\ \E k \in 0..n : \E codes \in {q \in CodeListsOfLen(k) : ReposInOrder(q)} :
       st = [pc |-> "ready", data |-> UserActivityData(codes), stats |-> NewUserStatistics,
             err |-> <<>>, runs |-> 0, budget |-> budget]
  /\ fd = 0

StatsFresh == StatsFreshWith(MaxActs, 1)

InitStats == StatsFresh /\ GatewayParked /\ FetchParked /\ RunParked /\ RepoCommitsParked

\* The sums of the Additions and of the Deletions of the activities of a list
RECURSIVE SumAdditions(_)
SumAdditions(list) ==
  IF list = <<>> THEN 0 ELSE Head(list).Additions + SumAdditions(Tail(list))

RECURSIVE SumDeletions(_)
SumDeletions(list) ==
  IF list = <<>> THEN 0 ELSE Head(list).Deletions + SumDeletions(Tail(list))

\* (mutation of PRToReviewRatio: the division is made without the test)
PRToReviewRatioUnguarded(reviews, prs) == Quotient(reviews, prs)

\* UserStatistics.CalculatePRToReviewRatio on a fresh UserStatistics
PRToReviewRatio(reviews, prs) == IF prs > 0 THEN Quotient(reviews, prs) ELSE FloatZero

\* (mutation of Earlier: no activity counts as earlier than the first of the list)
EarlierNever(activity, firstActivity) == FALSE

\* calculateBasicStatistics: activity.Date.Before(firstActivity.Date)
Earlier(activity, firstActivity) == activity.Date < firstActivity.Date

\* calculateBasicStatistics: the earliest activity, the first one of the list among equals
RECURSIVE FirstActivity(_, _)
FirstActivity(list, first) ==
  IF list = <<>> THEN first
  ELSE FirstActivity(Tail(list), IF Earlier(Head(list), first) THEN Head(list) ELSE first)

\* (mutation of CountMerged: every pull request counts as merged)
CountMergedRegardless(prs) == Len(prs)

\* calculateBasicStatistics: if pr.IsMerged { stats.TotalPRMerged++ }
CountMerged(prs) == Len(SelectSeq(prs, LAMBDA a : a.IsMerged))

\* calculateBasicStatistics
CalculateBasicStatistics(stats, allActivities, data) ==
  [stats EXCEPT
     !.TotalCommits = Len(data.Commits),
     !.TotalPRCreated = Len(data.PRs),
     !.TotalIssues = Len(data.Issues),
     !.TotalReviews = Len(data.Reviews),
     !.TotalPRMerged = CountMerged(data.PRs),
     !.TotalAdditions = SumAdditions(data.PRs)
                          + SumAdditions(data.Commits),
     !.TotalDeletions = SumDeletions(data.PRs)
                          + SumDeletions(data.Commits),
     !.FirstActivityYear = IF Len(allActivities) > 0
                             THEN Year(FirstActivity(allActivities, allActivities[1]).Date)
                             ELSE 0,
     !.PRToReviewRatio = PRToReviewRatio(Len(data.Reviews), Len(data.PRs))]

\* The activities of the list that fall in year y
InYear(list, y) == SelectSeq(list, LAMBDA a : Year(a.Date) = y)

\* The keys of a yearly map built from the list
YearsOf(list) == {Year(list[i].Date) : i \in DOMAIN list}

\* (mutation of YearlyIssues: the years of the issues are not counted)
YearlyIssuesNone(data) == {}

\* aggregateYearlyData: the keys of yearlyIssues
YearlyIssues(data) == YearsOf(data.Issues)

\* (mutation of CollectAllYears: the years of the commits are left out)
CollectAllYearsButCommits(data) ==
  YearsOf(data.PRs) \cup YearsOf(data.Issues) \cup YearsOf(data.Reviews)

\* collectAllYears on the maps of aggregateYearlyData
CollectAllYears(data) ==
  YearsOf(data.Commits) \cup YearsOf(data.PRs) \cup YearlyIssues(data) \cup YearsOf(data.Reviews)

\* (mutation of YearlyAdditions: only the lines of the pull requests are added up)
YearlyAdditionsOfPRs(data, allActivities, y) == SumAdditions(InYear(data.PRs, y))

\* aggregateYearlyData: yearlyAdditions[year] += activity.Additions over allActivities
YearlyAdditions(data, allActivities, y) == SumAdditions(InYear(allActivities, y))

\* aggregateYearlyData and buildYearlyStats: stats.YearlyStats
BuildYearlyStats(data, allActivities) ==
  [y \in CollectAllYears(data) |->
     [Year |-> y,
      CommitCount |-> Len(InYear(data.Commits, y)),
      PRCreated |-> Len(InYear(data.PRs, y)),
      PRMerged |-> Len(SelectSeq(InYear(data.PRs, y), LAMBDA a : a.IsMerged)),
      IssueCount |-> Len(InYear(data.Issues, y)),
      ReviewCount |-> Len(InYear(data.Reviews, y)),
      TotalAdditions |-> YearlyAdditions(data, allActivities, y),
      TotalDeletions |-> SumDeletions(InYear(allActivities, y))]]

\* The orders a set can be listed in
Perms(S) ==
  {q \in [1..Cardinality(S) -> S] : \A i, j \in 1..Cardinality(S) : i # j => q[i] # q[j]}

\* (mutation of Exceeds: the count is compared with 0, not with the highest so far)
ExceedsZero(count, maxCommits) == count > 0

\* calculatePeakYear: yearlyStat.CommitCount > maxCommits
Exceeds(count, maxCommits) == count > maxCommits

\* calculatePeakYear: the loop over the years in the order the map yields them, from
\* year number i on; peak holds stats.PeakActivityYear and stats.PeakActivityCommits,
\* the latter equal to maxCommits throughout
RECURSIVE CalculatePeakYear(_, _, _, _)
CalculatePeakYear(yearly, order, i, peak) ==
  IF i > Len(order) THEN peak
  ELSE CalculatePeakYear(yearly, order, i + 1,
         IF Exceeds(yearly[order[i]].CommitCount, peak.commits)
           THEN [year |-> order[i], commits |-> yearly[order[i]].CommitCount]
           ELSE peak)

\* calculatePeakYear on a fresh UserStatistics: what the scan can end with, the order
\* of a map range being any order
PeakChoices(yearly) ==
  {CalculatePeakYear(yearly, order, 1, [year |-> 0, commits |-> 0]) :
     order \in Perms(DOMAIN yearly)}

\* domain.NewRepositoryActivity, and the two dates set from the first activity seen
NewRepositoryActivity(a) ==
  [Repository |-> a.Repository, CommitCount |-> 0, PRCount |-> 0, IssueCount |-> 0,
   ReviewCount |-> 0, TotalAdditions |-> 0, TotalDeletions |-> 0,
   FirstActivity |-> a.Date, LastActivity |-> a.Date]

\* (mutation of WidenFirst: the date of the activity is stored whatever it is)
WidenFirstAlways(first, date) == date

\* if activity.Date.Before(repo.FirstActivity) { repo.FirstActivity = activity.Date }
WidenFirst(first, date) == IF date < first THEN date ELSE first

\* (mutation of WidenLast: the comparison is the wrong way round)
WidenLastInverted(last, date) == IF date < last THEN date ELSE last

\* if activity.Date.After(repo.LastActivity) { repo.LastActivity = activity.Date }
WidenLast(last, date) == IF date > last THEN date ELSE last

\* aggregateRepositoryActivities: the loop body for activity a, repo being the entry of
\* its repository
FoldActivity(repo, a) ==
  [repo EXCEPT
     !.CommitCount = IF a.Type = "commit" THEN @ + 1 ELSE @,
     !.PRCount = IF a.Type = "pull_request" THEN @ + 1 ELSE @,
     !.IssueCount = IF a.Type = "issue" THEN @ + 1 ELSE @,
     !.ReviewCount = IF a.Type = "review" THEN @ + 1 ELSE @,
     !.TotalAdditions = @ + a.Additions,
     !.TotalDeletions = @ + a.Deletions,
     !.FirstActivity = WidenFirst(@, a.Date),
     !.LastActivity = WidenLast(@, a.Date)]

\* aggregateRepositoryActivities: one turn of the loop
FoldStep(repoMap, a) ==
  LET repo == IF a.Repository \in DOMAIN repoMap
                THEN repoMap[a.Repository]
                ELSE NewRepositoryActivity(a)
  IN [r \in DOMAIN repoMap \cup {a.Repository} |->
        IF r = a.Repository THEN FoldActivity(repo, a) ELSE repoMap[r]]

\* aggregateRepositoryActivities: the fold over the activities from number i on
RECURSIVE AggregateRepositoryActivities(_, _, _)
AggregateRepositoryActivities(allActivities, i, repoMap) ==
  IF i > Len(allActivities) THEN repoMap
  ELSE AggregateRepositoryActivities(allActivities, i + 1,
                                     FoldStep(repoMap, allActivities[i]))

\* (mutation of LessByCommits: the comparison is the wrong way round)
LessByCommitsAscending(a, b) == a.CommitCount < b.CommitCount

\* selectTopRepositories: the less function of sort.Slice
LessByCommits(a, b) == a.CommitCount > b.CommitCount

\* selectTopRepositories: what sort.Slice can leave in repos, the map being ranged over
\* in any order: no element is less than one before it
TopOrders(repoMap) ==
  {[i \in DOMAIN q |-> repoMap[q[i]]] :
     q \in {o \in Perms(DOMAIN repoMap) :
              \A i, j \in DOMAIN o : i < j => ~LessByCommits(repoMap[o[j]], repoMap[o[i]])}}

\* selectTopRepositories: the first topRepoLimit of the sorted list
TakeTop(repos) == IF Len(repos) > topRepoLimit THEN SubSeq(repos, 1, topRepoLimit) ELSE repos

\* findLongTermRepositories: LastActivity.Sub(FirstActivity)
Tenure(repo) == repo.LastActivity - repo.FirstActivity

\* (mutation of LongEnough: a tenure of exactly a year is left out)
LongEnoughStrict(repo) == Tenure(repo) > DaysPerYear

\* findLongTermRepositories: if duration >= oneYear
LongEnough(repo) == Tenure(repo) >= DaysPerYear

\* findLongTermRepositories: the repositories of the list with a tenure of a year or
\* more, in an order sort.Slice can leave them in
LongTermOrders(repos) ==
  LET long == SelectSeq(repos, LongEnough)
  IN {[i \in DOMAIN q |-> long[q[i]]] :
        q \in {o \in Perms(DOMAIN long) :
                 \A i, j \in DOMAIN o : i < j => ~(Tenure(long[o[j]]) > Tenure(long[o[i]]))}}

\* (mutation of Below: a ratio equal to the threshold counts as below it)
BelowOrEqual(ratio, num, den) == ratio.num * den <= num * ratio.den

\* ratio < threshold, for a ratio with a positive denominator and the threshold num / den
Below(ratio, num, den) == ratio.num * den < num * ratio.den

\* generateRoleDescriptionForNoActivity, then generateRoleDescriptionByRatio with the
\* thresholds 0.5, 1.0 and 2.0.  The descriptions are the Japanese strings of the source
\* in English.
GenerateRoleDescription(prCreated, reviewCount, ratio) ==
  IF prCreated = 0 /\ reviewCount = 0 THEN "no activity"
  ELSE IF prCreated = 0 /\ reviewCount > 0 THEN "review-focused activity"
  ELSE IF prCreated > 0 /\ reviewCount = 0 THEN "development-focused activity"
  ELSE IF Below(ratio, 1, 2) THEN "development-focused, some reviewing"
  ELSE IF Below(ratio, 1, 1) THEN "balanced development and review"
  ELSE IF Below(ratio, 2, 1) THEN "review-weighted activity"
  ELSE "review-focused, strong quality contribution"

\* analyzeContinuityAndCareer: var ratio float64; if PRCreated > 0 { ratio = ... }
YearlyRatio(reviewCount, prCreated) ==
  IF prCreated > 0 THEN Quotient(reviewCount, prCreated) ELSE FloatZero

\* sort.Ints on the keys of a map
RECURSIVE SortInts(_)
SortInts(S) ==
  IF S = {} THEN <<>>
  ELSE LET least == CHOOSE x \in S : \A y \in S : x <= y
       IN <<least>> \o SortInts(S \ {least})

\* (mutation of YearOrders: the years are taken as the map yields them)
YearOrdersUnsorted(yearly) == Perms(DOMAIN yearly)

\* analyzeContinuityAndCareer: the keys of YearlyStats in map order, then sort.Ints
YearOrders(yearly) == {SortInts(DOMAIN yearly)}

\* analyzeContinuityAndCareer: stats.RoleTransition, the loop over the sorted years
AnalyzeContinuityAndCareer(yearly, years) ==
     [i \in DOMAIN years |->
        LET yearlyStat == yearly[years[i]]
            ratio == YearlyRatio(yearlyStat.ReviewCount, yearlyStat.PRCreated)
        IN [Year |-> years[i], PRCreated |-> yearlyStat.PRCreated,
            ReviewCount |-> yearlyStat.ReviewCount, Ratio |-> ratio,
            Description |-> GenerateRoleDescription(yearlyStat.PRCreated,
                                                    yearlyStat.ReviewCount, ratio)]]

\* CalculateStatistics: allActivities
AllActivities(data) == data.Commits \o data.PRs \o data.Issues \o data.Reviews

\* StatisticsService.CalculateStatistics, on the input the caller holds
CalculateStatistics ==
  /\ st.runs < st.budget
  /\ LET data == st.data
         allActivities == AllActivities(data)
         basic == CalculateBasicStatistics(NewUserStatistics, allActivities, data)
         yearly == BuildYearlyStats(data, allActivities)
         repoMap == AggregateRepositoryActivities(allActivities, 1, <<>>)
     IN \E peak \in PeakChoices(yearly), sorted \in TopOrders(repoMap),
           years \in YearOrders(yearly) :
          \E long \in LongTermOrders(TakeTop(sorted)) :
            st' = [st EXCEPT !.pc = "done", !.err = <<>>, !.runs = @ + 1,
                             !.stats = [basic EXCEPT
                                          !.YearlyStats = yearly,
                                          !.PeakActivityYear = peak.year,
                                          !.PeakActivityCommits = peak.commits,
                                          !.TopRepositories = TakeTop(sorted),
                                          !.LongTermRepositories = long,
                                          !.RoleTransition =
                                            AnalyzeContinuityAndCareer(yearly, years)]]
  /\ UNCHANGED <<nonStVars, fd>>

NextStats == CalculateStatistics

SpecStats == InitStats /\ [][NextStats]_vars

\* The same input aggregated MaxRuns times: the service keeps nothing between calls
InitRerun ==
  /\ StatsFreshWith(MaxRerunActs, MaxRuns)
  /\ GatewayParked /\ FetchParked /\ RunParked /\ RepoCommitsParked

SpecRerun == InitRerun /\ [][NextStats]_vars

(***************************************************************************)
(* The loop of aggregateRepositoryActivities, one activity per step, on a  *)
(* list of activities in any order.                                        *)
(***************************************************************************)
MaxFoldActs == 3

\* The repositories of a list of activity numbers
ReposSeen(codes) == {ActivityOf(codes[i]).Repository : i \in DOMAIN codes}

\* The lists of n activity numbers in any order; repository names are interchangeable,
\* so the repositories are numbered as they first appear
RECURSIVE ActivityListsOfLen(_)
ActivityListsOfLen(n) ==
  IF n = 0 THEN {<<>>}
  ELSE {Append(p[1], p[2]) :
          p \in {r \in ActivityListsOfLen(n - 1) \X (0..(NumOptions - 1)) :
                   ActivityOf(r[2]).Repository <= Cardinality(ReposSeen(r[1])) + 1}}

\* aggregateRepositoryActivities is called: repoMap is the empty map, the loop is at
\* the first activity
FoldFresh ==
  /\ \E k \in 0..MaxFoldActs : \E codes \in ActivityListsOfLen(k) :
       fd = [allActivities |-> [i \in 1..k |-> ActivityOf(codes[i])], i |-> 1,
             repoMap |-> <<>>]
  /\ st = 0

InitFold == FoldFresh /\ GatewayParked /\ FetchParked /\ RunParked /\ RepoCommitsParked

\* One turn of the loop
FoldTurn ==
  /\ fd.i <= Len(fd.allActivities)
  /\ fd' = [fd EXCEPT !.i = @ + 1,
                      !.repoMap = FoldStep(@, fd.allActivities[fd.i])]
  /\ UNCHANGED <<nonStVars, st>>

\* The loop is over and repoMap is returned
FoldOver == fd.i > Len(fd.allActivities)

NextFold == FoldTurn

SpecFold == InitFold /\ [][NextFold]_vars

(***************************************************************************)
(* Properties of the aggregation                                           *)
(***************************************************************************)
\* The sum of f[x] over the keys x of a map
RECURSIVE SumOverKeys(_, _)
SumOverKeys(f, keys) ==
  IF keys = {} THEN 0
  ELSE LET x == CHOOSE k \in keys : TRUE IN f[x] + SumOverKeys(f, keys \ {x})

\* C18: after CalculateStatistics the CommitCount entries of YearlyStats add up to
\* TotalCommits.
C18_YearlyCommitsSumToTotal ==
  st.pc = "done" =>
    SumOverKeys([y \in DOMAIN st.stats.YearlyStats |-> st.stats.YearlyStats[y].CommitCount],
                DOMAIN st.stats.YearlyStats) = st.stats.TotalCommits

C18_Witness ==
  /\ st.pc = "done"
  /\ st.stats.TotalCommits = 3
  /\ \E y1, y2 \in DOMAIN st.stats.YearlyStats :
       /\ st.stats.YearlyStats[y1].CommitCount = 2
       /\ st.stats.YearlyStats[y2].CommitCount = 1

\* The float64 value is float64(a) / float64(b) for b > 0, and 0 for b = 0.
IsRatioOf(ratio, a, b) ==
  /\ ratio.den # 0
  /\ b > 0 => ratio.num * b = a * ratio.den
  /\ b = 0 => ratio.num = 0

\* C19: PRToReviewRatio is TotalReviews / TotalPRCreated, and 0 - a defined value - when
\* no pull request was created; the Ratio of every RoleTransition point is the same
\* function of the year's ReviewCount and PRCreated.
C19_RatioDefinedAndZeroWithoutPRs ==
  st.pc = "done" =>
    /\ st.err = <<>>
    /\ IsRatioOf(st.stats.PRToReviewRatio, st.stats.TotalReviews, st.stats.TotalPRCreated)
    /\ \A i \in DOMAIN st.stats.RoleTransition :
         LET point == st.stats.RoleTransition[i]
         IN /\ point.PRCreated = st.stats.YearlyStats[point.Year].PRCreated
            /\ point.ReviewCount = st.stats.YearlyStats[point.Year].ReviewCount
            /\ IsRatioOf(point.Ratio, point.ReviewCount, point.PRCreated)

C19_Witness ==
  /\ st.pc = "done"
  /\ st.stats.TotalPRCreated = 0 /\ st.stats.TotalReviews = 2
  /\ st.stats.PRToReviewRatio = FloatZero
  /\ \E i \in DOMAIN st.stats.RoleTransition :
       st.stats.RoleTransition[i].ReviewCount > 0 /\ st.stats.RoleTransition[i].Ratio = FloatZero

\* The repositories of the input and the commits each has
InputRepositories ==
  {a.Repository : a \in Range(st.data.Commits) \cup Range(st.data.PRs)
                       \cup Range(st.data.Issues) \cup Range(st.data.Reviews)}
CommitsIn(r) == Len(SelectSeq(st.data.Commits, LAMBDA a : a.Repository = r))

\* C20: TopRepositories lists min(3, number of repositories of the input) different
\* repositories with their commit counts, in non-increasing order of commit count, and
\* no repository left out has more commits than the last one listed.
C20_TopRepositoriesSortedAndCapped ==
  st.pc = "done" =>
    LET top == st.stats.TopRepositories
        listed == {top[i].Repository : i \in DOMAIN top}
    IN /\ Len(top) = IF Cardinality(InputRepositories) < topRepoLimit
                       THEN Cardinality(InputRepositories) ELSE topRepoLimit
       /\ Cardinality(listed) = Len(top)
       /\ listed \subseteq InputRepositories
       /\ \A i \in DOMAIN top : top[i].CommitCount = CommitsIn(top[i].Repository)
       /\ \A i, j \in DOMAIN top : i < j => top[i].CommitCount >= top[j].CommitCount
       /\ \A r \in InputRepositories \ listed : CommitsIn(r) <= top[Len(top)].CommitCount

C20_Witness ==
  /\ st.pc = "done"
  /\ Cardinality(InputRepositories) = 4
  /\ Len(st.stats.TopRepositories) = 3
  /\ st.stats.TopRepositories[1].CommitCount = 1
  /\ st.stats.TopRepositories[3].CommitCount = 0

WidensOnly(before, after, a) ==
  /\ DOMAIN after = DOMAIN before \cup {a.Repository}
  /\ a.Repository \notin DOMAIN before =>
       /\ after[a.Repository].FirstActivity = a.Date
       /\ after[a.Repository].LastActivity = a.Date
  /\ \A r \in DOMAIN before :
       /\ after[r].FirstActivity <= before[r].FirstActivity
       /\ after[r].LastActivity >= before[r].LastActivity
       /\ r # a.Repository => after[r] = before[r]
  /\ \A r \in DOMAIN after : after[r].FirstActivity <= after[r].LastActivity

\* C22: in the per-repository fold, the first activity seen of a repository sets both its
\* FirstActivity and its LastActivity; every later activity leaves FirstActivity or makes
\* it earlier, leaves LastActivity or makes it later, and touches no other repository;
\* so after every folded activity FirstActivity <= LastActivity for every repository.
C22_FoldWidensMonotonically ==
  [][fd'.i = fd.i + 1 =>
       WidensOnly(fd.repoMap, fd'.repoMap, fd.allActivities[fd.i])]_vars

\* The activities of the repository in the list, in the order of the fold
ActivitiesOf(r) == SelectSeq(fd.allActivities, LAMBDA a : a.Repository = r)

C22_Witness ==
  /\ FoldOver
  /\ \E r \in DOMAIN fd.repoMap :
       LET seen == ActivitiesOf(r)
       IN /\ Len(seen) = 3
          /\ seen[2].Date < seen[1].Date
          /\ seen[3].Date > seen[2].Date
          /\ fd.repoMap[r].FirstActivity = seen[2].Date
          /\ fd.repoMap[r].LastActivity = seen[1].Date

\* The list in the order q, a listing of its indices
Permuted(list, q) == [i \in DOMAIN list |-> list[q[i]]]

\* C23: the per-repository aggregate (the counts per category, the line totals,
\* FirstActivity and LastActivity of every repository) is the same whatever the order
\* the activities are folded in.
C23_FoldIsOrderIndependent ==
  FoldOver =>
    \A q \in Perms(DOMAIN fd.allActivities) :
      AggregateRepositoryActivities(Permuted(fd.allActivities, q), 1, <<>>) = fd.repoMap

C23_Witness ==
  /\ FoldOver
  /\ \E r \in DOMAIN fd.repoMap :
       LET seen == ActivitiesOf(r)
       IN /\ Len(seen) = 3
          /\ seen[1].Type = "review" /\ seen[2].Type = "pull_request"
          /\ seen[3].Type = "commit"
          /\ seen[1].Date > seen[2].Date
          /\ seen[2].Date = seen[3].Date
          /\ fd.repoMap[r].PRCount = 1
          /\ fd.repoMap[r].FirstActivity = seen[2].Date
          /\ fd.repoMap[r].LastActivity = seen[1].Date

\* The description a year with p pull requests created and r reviews is to get
RoleOf(p, r) ==
  IF p = 0 /\ r = 0 THEN "no activity"
  ELSE IF p = 0 /\ r > 0 THEN "review-focused activity"
  ELSE IF p > 0 /\ r = 0 THEN "development-focused activity"
  ELSE IF 2 * r < p THEN "development-focused, some reviewing"
  ELSE IF p <= 2 * r /\ r < p THEN "balanced development and review"
  ELSE IF p <= r /\ r < 2 * p THEN "review-weighted activity"
  ELSE "review-focused, strong quality contribution"

\* C24: every point of RoleTransition carries the numbers p of pull requests created and
\* r of reviews of its year, and the description the first matching rule gives: no
\* activity for p = 0 and r = 0, review-focused for p = 0 < r, development-focused for
\* r = 0 < p, then by the ratio r / p with the ratios 0.5, 1.0 and 2.0 in the higher class.
C24_RoleDescriptionByFirstRule ==
  st.pc = "done" =>
    \A i \in DOMAIN st.stats.RoleTransition :
      LET point == st.stats.RoleTransition[i]
          p == Len(InYear(st.data.PRs, point.Year))
          r == Len(InYear(st.data.Reviews, point.Year))
      IN /\ point.PRCreated = p
         /\ point.ReviewCount = r
         /\ point.Description = RoleOf(p, r)

C24_Witness ==
  /\ st.pc = "done"
  /\ \E i, j \in DOMAIN st.stats.RoleTransition :
       /\ st.stats.RoleTransition[i].PRCreated = 2
       /\ st.stats.RoleTransition[i].ReviewCount = 1
       /\ st.stats.RoleTransition[i].Description = "balanced development and review"
       /\ st.stats.RoleTransition[j].PRCreated = 0
       /\ st.stats.RoleTransition[j].ReviewCount = 0
       /\ st.stats.RoleTransition[j].Description = "no activity"

\* The years of the points of a RoleTransition list go up
YearsAscending(points) ==
  \A i, j \in DOMAIN points : i < j => points[i].Year < points[j].Year

\* C25: a run of the aggregation leaves the points of RoleTransition in ascending order
\* of their years, and a second run on the same input gives the same list as the first:
\* the same years in the same order with the same PRCreated, ReviewCount, Ratio and
\* Description, whatever order the maps are ranged over in.
C25_RoleTransitionIsReproducible ==
  [][st'.pc = "done" =>
       /\ YearsAscending(st'.stats.RoleTransition)
       /\ st.pc = "done" => st'.stats.RoleTransition = st.stats.RoleTransition]_vars

C25_Witness ==
  /\ st.pc = "done"
  /\ st.runs = 2
  /\ Len(st.stats.RoleTransition) = 2
  /\ st.stats.RoleTransition[1].Description # st.stats.RoleTransition[2].Description

\* The place in the list of the first activity of the repository
Encounter(allActivities, r) ==
  CHOOSE i \in DOMAIN allActivities :
    /\ allActivities[i].Repository = r
    /\ \A j \in 1..(i - 1) : allActivities[j].Repository # r

\* Repositories of equal commit count are listed in the order the list of activities
\* first names them, and one of them left out was named after those that are listed
TiesInEncounterOrder(data, top) ==
  LET allActivities == AllActivities(data)
      repoMap == AggregateRepositoryActivities(allActivities, 1, <<>>)
  IN /\ \A i, j \in DOMAIN top :
          i < j /\ top[i].CommitCount = top[j].CommitCount =>
            Encounter(allActivities, top[i].Repository)
              < Encounter(allActivities, top[j].Repository)
     /\ \A i \in DOMAIN top :
          \A r \in DOMAIN repoMap \ {top[k].Repository : k \in DOMAIN top} :
            repoMap[r].CommitCount = top[i].CommitCount =>
              Encounter(allActivities, top[i].Repository) < Encounter(allActivities, r)

\* C26: TopRepositories is a function of the input: repositories of equal commit count
\* keep their encounter order, also at the cut after the third, and a second run on the
\* same input gives the same list as the first.
C26_TopRepositoriesIsReproducible ==
  [][st'.pc = "done" =>
       /\ TiesInEncounterOrder(st'.data, st'.stats.TopRepositories)
       /\ st.pc = "done" => st'.stats.TopRepositories = st.stats.TopRepositories]_vars

\* The commit counts of the years of YearlyStats
CommitCounts(yearly) == {yearly[y].CommitCount : y \in DOMAIN yearly}

\* C27: after the aggregation PeakActivityCommits is the highest CommitCount of the years
\* of YearlyStats and PeakActivityYear is a year with that CommitCount; when no year has
\* a commit both are 0.
C27_PeakIsMaximum ==
  st.pc = "done" =>
    LET yearly == st.stats.YearlyStats
    IN IF \A y \in DOMAIN yearly : yearly[y].CommitCount = 0
         THEN st.stats.PeakActivityCommits = 0 /\ st.stats.PeakActivityYear = 0
         ELSE /\ st.stats.PeakActivityCommits \in CommitCounts(yearly)
              /\ \A n \in CommitCounts(yearly) : n <= st.stats.PeakActivityCommits
              /\ st.stats.PeakActivityYear \in DOMAIN yearly
              /\ yearly[st.stats.PeakActivityYear].CommitCount
                   = st.stats.PeakActivityCommits

C27_Witness ==
  /\ st.pc = "done"
  /\ st.stats.PeakActivityCommits = 2
  /\ \E y \in DOMAIN st.stats.YearlyStats :
       /\ y < st.stats.PeakActivityYear
       /\ st.stats.YearlyStats[y].CommitCount = 1

\* C28: the years are scanned in an order fixed by the input, so when several years
\* have the highest commit count a second run on the same input names the same
\* PeakActivityYear as the first.
C28_PeakYearIsReproducible ==
  [][st.pc = "done" /\ st'.pc = "done" =>
       st'.stats.PeakActivityYear = st.stats.PeakActivityYear]_vars

\* The years in which the input has an activity of any category
ActiveYears(data) ==
  {Year(AllActivities(data)[i].Date) : i \in DOMAIN AllActivities(data)}

\* C29: the keys of YearlyStats are the years of the commits, pull requests, issues and
\* reviews of the input: a year with an activity of any category, be it only an issue,
\* has an entry, the entry of that year, and a year without activity has none.
C29_YearlyStatsKeysAreActiveYears ==
  st.pc = "done" =>
    /\ DOMAIN st.stats.YearlyStats = ActiveYears(st.data)
    /\ \A y \in DOMAIN st.stats.YearlyStats : st.stats.YearlyStats[y].Year = y

C29_Witness ==
  /\ st.pc = "done"
  /\ \E y, z \in DOMAIN st.stats.YearlyStats :
       /\ st.stats.YearlyStats[y].IssueCount = 1
       /\ st.stats.YearlyStats[y].CommitCount = 0
       /\ st.stats.YearlyStats[y].PRCreated = 0
       /\ st.stats.YearlyStats[y].ReviewCount = 0
       /\ st.stats.YearlyStats[z].IssueCount = 0
       /\ st.stats.YearlyStats[z].CommitCount = 1
       /\ st.stats.YearlyStats[z].PRCreated = 1
       /\ st.stats.YearlyStats[z].ReviewCount = 1

\* C30: for an input with activities FirstActivityYear is the year of the earliest date
\* of all activities of the four categories, which is the smallest key of YearlyStats;
\* for an input without activities it is 0.
C30_FirstActivityYearIsEarliest ==
  st.pc = "done" =>
    LET allActivities == AllActivities(st.data)
    IN IF allActivities = <<>> THEN st.stats.FirstActivityYear = 0
       ELSE /\ \E i \in DOMAIN allActivities :
                 /\ \A j \in DOMAIN allActivities :
                      allActivities[i].Date <= allActivities[j].Date
                 /\ st.stats.FirstActivityYear = Year(allActivities[i].Date)
            /\ st.stats.FirstActivityYear \in DOMAIN st.stats.YearlyStats
            /\ \A y \in DOMAIN st.stats.YearlyStats : st.stats.FirstActivityYear <= y

C30_Witness ==
  /\ st.pc = "done"
  /\ Len(st.data.Commits) = 1
  /\ Len(st.data.Reviews) = 1
  /\ st.data.Reviews[1].Date < st.data.Commits[1].Date
  /\ st.stats.FirstActivityYear = Year(st.data.Reviews[1].Date)
  /\ st.stats.FirstActivityYear < Year(st.data.Commits[1].Date)

\* C31: CalculateStatistics on an input whose four lists are empty returns no error and
\* a UserStatistics whose counters, FirstActivityYear, PeakActivityYear and
\* PRToReviewRatio are 0 and whose YearlyStats, TopRepositories, LongTermRepositories
\* and RoleTransition are empty.
C31_EmptyInputGivesZeroStatistics ==
  st.pc = "done" /\ AllActivities(st.data) = <<>> =>
    /\ st.err = <<>>
    /\ st.stats.TotalCommits = 0 /\ st.stats.TotalPRCreated = 0
    /\ st.stats.TotalPRMerged = 0 /\ st.stats.TotalIssues = 0
    /\ st.stats.TotalReviews = 0 /\ st.stats.TotalAdditions = 0
    /\ st.stats.TotalDeletions = 0 /\ st.stats.PeakActivityCommits = 0
    /\ st.stats.FirstActivityYear = 0 /\ st.stats.PeakActivityYear = 0
    /\ st.stats.PRToReviewRatio = FloatZero
    /\ DOMAIN st.stats.YearlyStats = {}
    /\ st.stats.TopRepositories = <<>>
    /\ st.stats.LongTermRepositories = <<>>
    /\ st.stats.RoleTransition = <<>>

C31_Witness ==
  /\ st.pc = "done"
  /\ st.runs = 1
  /\ st.data = [Commits |-> <<>>, PRs |-> <<>>, Issues |-> <<>>, Reviews |-> <<>>]
  /\ st.stats = NewUserStatistics

\* The pull requests of the input whose merged flag is set
MergedPRs(data) == SelectSeq(data.PRs, LAMBDA a : a.IsMerged)

\* C32: after the aggregation TotalCommits, TotalPRCreated, TotalIssues and TotalReviews
\* are the lengths of the four lists of the input, TotalPRMerged is the number of pull
\* requests with the merged flag, so at most TotalPRCreated, and TotalAdditions and
\* TotalDeletions are the line counts of the pull requests and the commits added up.
C32_TotalsCountTheInput ==
  st.pc = "done" =>
    /\ st.stats.TotalCommits = Len(st.data.Commits)
    /\ st.stats.TotalPRCreated = Len(st.data.PRs)
    /\ st.stats.TotalIssues = Len(st.data.Issues)
    /\ st.stats.TotalReviews = Len(st.data.Reviews)
    /\ st.stats.TotalPRMerged = Len(MergedPRs(st.data))
    /\ st.stats.TotalPRMerged <= st.stats.TotalPRCreated
    /\ st.stats.TotalAdditions
         = SumAdditions(st.data.PRs \o st.data.Commits)
    /\ st.stats.TotalDeletions
         = SumDeletions(st.data.PRs \o st.data.Commits)

C32_Witness ==
  /\ st.pc = "done"
  /\ st.stats.TotalCommits = 1
  /\ st.stats.TotalPRCreated = 2
  /\ st.stats.TotalPRMerged = 1
  /\ st.stats.TotalIssues + st.stats.TotalReviews = 1
  /\ st.stats.TotalAdditions > SumAdditions(st.data.PRs)
  /\ st.stats.TotalAdditions > SumAdditions(st.data.Commits)

\* C33: RoleTransition has one point for each key of YearlyStats and no other, the
\* years strictly ascending, each point with the PRCreated and ReviewCount of its year;
\* a year without pull requests, such as one with commits or issues only, has a point
\* with ratio 0.
C33_OnePointPerYear ==
  st.pc = "done" =>
    LET points == st.stats.RoleTransition
        yearly == st.stats.YearlyStats
    IN /\ {points[i].Year : i \in DOMAIN points} = DOMAIN yearly
       /\ \A i, j \in DOMAIN points : i < j => points[i].Year < points[j].Year
       /\ \A i \in DOMAIN points :
            /\ points[i].PRCreated = yearly[points[i].Year].PRCreated
            /\ points[i].ReviewCount = yearly[points[i].Year].ReviewCount
            /\ points[i].PRCreated = 0 => points[i].Ratio = FloatZero

C33_Witness ==
  /\ st.pc = "done"
  /\ Len(st.stats.RoleTransition) = 2
  /\ st.stats.YearlyStats[st.stats.RoleTransition[1].Year].CommitCount = 1
  /\ st.stats.YearlyStats[st.stats.RoleTransition[1].Year].PRCreated = 0
  /\ st.stats.YearlyStats[st.stats.RoleTransition[1].Year].ReviewCount = 0
  /\ st.stats.RoleTransition[1].Ratio = FloatZero
  /\ st.stats.RoleTransition[2].PRCreated = 1
  /\ st.stats.RoleTransition[2].ReviewCount = 1

\* The entries of YearlyStats added up over the years, for one field
YearlyTotal(field) ==
  SumOverKeys([y \in DOMAIN st.stats.YearlyStats |-> st.stats.YearlyStats[y][field]],
              DOMAIN st.stats.YearlyStats)

\* No issue and no review of the list carries line counts
NoLineCounts(list) == \A i \in DOMAIN list : list[i].Additions = 0 /\ list[i].Deletions = 0

\* C39: after the aggregation the PRCreated, PRMerged, IssueCount and ReviewCount entries
\* of YearlyStats add up over the years to TotalPRCreated, TotalPRMerged, TotalIssues
\* and TotalReviews; in every year PRMerged is at most PRCreated; and when issues and
\* reviews carry no line counts, the yearly TotalAdditions and TotalDeletions add up to
\* the overall TotalAdditions and TotalDeletions.
C39_YearlyRollupPartitionsTotals ==
  st.pc = "done" =>
    /\ YearlyTotal("PRCreated") = st.stats.TotalPRCreated
    /\ YearlyTotal("PRMerged") = st.stats.TotalPRMerged
    /\ YearlyTotal("IssueCount") = st.stats.TotalIssues
    /\ YearlyTotal("ReviewCount") = st.stats.TotalReviews
    /\ \A y \in DOMAIN st.stats.YearlyStats :
         st.stats.YearlyStats[y].PRMerged <= st.stats.YearlyStats[y].PRCreated
    /\ (NoLineCounts(st.data.Issues) /\ NoLineCounts(st.data.Reviews)) =>
         /\ YearlyTotal("TotalAdditions") = st.stats.TotalAdditions
         /\ YearlyTotal("TotalDeletions") = st.stats.TotalDeletions

C39_Witness ==
  /\ st.pc = "done"
  /\ Cardinality(DOMAIN st.stats.YearlyStats) = 2
  /\ \E y1, y2 \in DOMAIN st.stats.YearlyStats :
       /\ y1 # y2
       /\ st.stats.YearlyStats[y1].PRCreated = 2
       /\ st.stats.YearlyStats[y1].PRMerged = 1
       /\ st.stats.YearlyStats[y2].CommitCount = 1
       /\ st.stats.YearlyStats[y2].IssueCount + st.stats.YearlyStats[y2].ReviewCount = 1
       /\ st.stats.YearlyStats[y1].TotalAdditions > 0
       /\ st.stats.YearlyStats[y2].TotalAdditions > 0
  /\ st.stats.TotalPRMerged = 1
  /\ st.stats.TotalAdditions = YearlyTotal("TotalAdditions")

(***************************************************************************)
(* Cancellation of a run: the goroutines of setupAndProcessUsers, each     *)
(* making the queries of its FetchAllUserActivity through the one client   *)
(* of the run with the one context of the run (context 1), and             *)
(* collectResults.  Task i is caller i of the client.  Nothing in a run    *)
(* calls GetRateLimitInfo, so lastRateLimitReset stays the zero time.      *)
(***************************************************************************)
\* users: one per task
AbortUsers == [i \in Callers |-> ((i - 1) % NumNames) + 1]

\* setupAndProcessUsers at the call of collectResults, every goroutine started
AbortFresh ==
  /\ GatewayFresh
  /\ run = [pc |-> "collect", mode |-> "users", input |-> AbortUsers, users |-> AbortUsers,
            after |-> 0, orgClient |-> 0, client |-> 1,
            received |-> 0, allStats |-> {}, formatted |-> {}, logged |-> {}]
  /\ task = [i \in Callers |-> NewTask]
  /\ results = <<>>
  /\ rhist = [clients |-> 1, calls |-> {}]
  /\ gu = 0

InitAbort == AbortFresh /\ FetchParked /\ RepoCommitsParked /\ StatsParked

\* GitHubClient.Query(ctx, ...) is entered with the context of the run
NewQuery == [IdleInv EXCEPT !.pc = "lock", !.op = "Query", !.ctx = 1,
                            !.startEpoch = Len(resetLog)]

\* the goroutine of users[i]: processUser up to the first Query call of FetchAllUserActivity
TaskCall(i) ==
  /\ run.pc = "collect"
  /\ task[i].pc = "fetch"
  /\ inv[i].pc = "idle"
  /\ task' = [task EXCEPT ![i].pc = "query"]
  /\ inv' = [inv EXCEPT ![i] = NewQuery]
  /\ calls' = calls + 1
  /\ rhist' = [rhist EXCEPT !.calls = @ \cup {QueryVia(run.client, TaskSites[task[i].site])}]
  /\ UNCHANGED <<ftVars, rcVars, stVars, usVars, run, results,
                 now, lastRateLimitReset, mu, limiter, ctxDone, sent, resetLog>>

\* the goroutine of users[i]: Query has returned; FetchAllUserActivity goes on to its next
\* Query call, or returns and leaves processUser with a result to send
TaskReturn(i) ==
  /\ task[i].pc = "query"
  /\ inv[i].pc = "done"
  /\ LET t == AfterQuery([task[i] EXCEPT !.pc = "fetch"], inv[i].result)
     IN IF t.pc = "fetch"
          THEN /\ task' = [task EXCEPT ![i] = [t EXCEPT !.pc = "query"]]
               /\ inv' = [inv EXCEPT ![i] = NewQuery]
               /\ calls' = calls + 1
               /\ rhist' = [rhist EXCEPT
                              !.calls = @ \cup {QueryVia(run.client, TaskSites[t.site])}]
          ELSE /\ task' = [task EXCEPT ![i] = t]
               /\ UNCHANGED <<inv, calls, rhist>>
  /\ UNCHANGED <<ftVars, rcVars, stVars, usVars, run, results,
                 now, lastRateLimitReset, mu, limiter, ctxDone, sent, resetLog>>

\* The run has a step it takes without waiting for time to pass.
RunHasLocalStep ==
  \/ \E i \in Callers : task[i].pc \in {"fetch", "send"}
  \/ \E i \in Callers : task[i].pc = "query" /\ inv[i].pc = "done"
  \/ run.pc = "collect" /\ (results # <<>> \/ run.received = Len(run.users))

\* Time passes while every goroutine of the run waits
TickRun == ~RunHasLocalStep /\ Tick

NextAbort ==
  \/ \E i \in Callers : TaskCall(i)
  \/ \E c \in Callers : Lock(c)
  \/ \E c \in Callers : CheckReset(c)
  \/ \E c \in Callers : LimiterWait(c)
  \/ \E c \in Callers : TokenCancelled(c)
  \/ \E c \in Callers : TokenGranted(c)
  \/ \E c \in Callers : Send(c)
  \/ \E c \in Callers, err \in {<<>>, TransportErr, CtxErr} : Respond(c, err, 0)
  \/ \E i \in Callers : TaskReturn(i)
  \/ \E i \in Callers : TaskSend(i)
  \/ \E formatErr \in BOOLEAN : Collect(formatErr)
  \/ Finish
  \/ Cancel(1)
  \/ TickRun

\* A step of the goroutine of users[i]
TaskStep(i) ==
  \/ TaskCall(i) \/ Lock(i) \/ CheckReset(i) \/ LimiterWait(i) \/ TokenCancelled(i)
  \/ TokenGranted(i) \/ Send(i)
  \/ \E err \in {<<>>, TransportErr, CtxErr} : Respond(i, err, 0)
  \/ TaskReturn(i) \/ TaskSend(i)

\* A step of collectResults and of what follows it in main
CollectorStep == (\E formatErr \in BOOLEAN : Collect(formatErr)) \/ Finish

\* A step of some goroutine of the run
RunStep == (\E i \in Callers : TaskStep(i)) \/ CollectorStep

\* The scheduler does not stop while some goroutine can take a step, and a network call
\* whose context is done returns.  Nothing makes the context end, and nothing makes time
\* pass.
FairAbort == WF_vars(RunStep)

SpecAbort == InitAbort /\ [][NextAbort]_vars /\ FairAbort

(***************************************************************************)
(* Properties of a cancelled run, checked under SpecAbort                  *)
(***************************************************************************)
RunOver == run.pc = "done" /\ \A i \in DOMAIN task : task[i].pc = "finished"

\* C15: once the context of the run is cancelled or past its deadline, no task starts a
\* network call, and every task and the result collector terminate.
C15_CancellationAbortsRun ==
  /\ [][\A c \in Callers :
          (inv[c].pc # "inflight" /\ inv'[c].pc = "inflight") => ~ctxDone[1]]_vars
  /\ (ctxDone[1] ~> RunOver)

C15_Witness ==
  /\ RunOver
  /\ ctxDone[1]
  /\ \E i, j \in Callers :
       /\ inv[i].attempts = 1 /\ inv[i].netErr = CtxErr
       /\ inv[j].attempts = 0 /\ Last(inv[j].result) = "ctx.Err"
       /\ run.users[j] \notin run.allStats

\* the tasks that have sent their result
Sent == {i \in DOMAIN task : task[i].pc = "finished"}

\* every fetch of the run has returned
AllFetched == \A i \in DOMAIN task : task[i].pc \in {"send", "finished"}

\* C36: there is one task per username and each sends one result; a task at its send
\* finds room in the channel, so it is never made to wait; the results received and
\* those in the channel are those of the tasks that have sent; a task at its send ends;
\* and once every fetch has returned, every task ends and collectResults returns after
\* len(users) receives, with the channel empty.
C36_SendsNeverBlockAndRunEnds ==
  /\ [](/\ Len(task) = Len(run.users)
        /\ \A i \in DOMAIN task : task[i].pc = "send" => ENABLED TaskSend(i)
        /\ run.received + Len(results) = Cardinality(Sent)
        /\ Len(results) <= Len(run.users)
        /\ run.pc = "done" => run.received = Len(run.users) /\ results = <<>>)
  /\ \A i \in Callers : (task[i].pc = "send") ~> (task[i].pc = "finished")
  /\ AllFetched ~> RunOver

C36_Witness ==
  /\ run.pc = "collect"
  /\ run.received = 0
  /\ Len(run.users) >= 2
  /\ Len(results) = Len(run.users)
  /\ \A i \in DOMAIN task : task[i].pc = "finished"

====
